---- MODULE Spec2Model ----
(***************************************************************************)
(* Model of the revue tracking reconciliation engine: the relational      *)
(* store (trackers, pull_requests, reviewers), the GitHub webhook         *)
(* handlers of server/github_handler.go, the Slack message re-render of   *)
(* server/slack_handler.go and the modal submissions of the interaction   *)
(* handler.                                                                *)
(***************************************************************************)
EXTENDS Integers, Sequences, FiniteSets, TLC

VARIABLES
    trackers,   \* table trackers: sequence of rows, the row id is the index
    prs,        \* table pull_requests: set of rows, each with its id
    lastPrId,   \* AUTOINCREMENT sequence of pull_requests
    reviewers,  \* table reviewers: rows [pr, user] in insertion order
    chat,       \* messages of the Slack channel: the message ts is the index
    task,       \* the webhook handling tasks: position and local variables
    sub,        \* the modal submission being answered (response and inputs)
    budget,     \* webhook deliveries left to the concurrent specification
    faults      \* failures of store and Slack calls left to the environment

vars == <<trackers, prs, lastPrId, reviewers, chat, task, sub, budget, faults>>
store == <<trackers, prs, lastPrId, reviewers>>

----------------------------------------------------------------------------
(* Bounds of the model *)

MaxTrackers == 1
MaxPRs == 2
MaxApprovals == 2
MaxRequired == 2
MaxEvents == 2
MaxFaults == 1

Handlers == {"h1", "h2"}

Repos == {"r1"}
Triples == {<<"o", "r1", 1>>, <<"o", "r1", 2>>}
UntrackedTriple == <<"o", "r9", 9>>
OtherTriple == <<"o", "r2", 9>>
EventKeys == Triples \cup {UntrackedTriple}
EventTitles == {"", "B"}
TrackerTitles == {"", "T"}
Users == {"U1", "U2"}
EventLogins == {"alice", "bob"}
Channel == "C1"

----------------------------------------------------------------------------
(* db: rows and statements *)

Statuses == {"open", "approved", "changes_requested", "merged", "closed"}

NoRow == [id |-> 0]

PRRow(id, t, key, url, title, required) ==
    [id |-> id, tracker |-> t, key |-> key, url |-> url, title |-> title,
     status |-> "open", req |-> required, cur |-> 0]

Min(S) == CHOOSE x \in S : \A y \in S : x <= y

\* a lookup whose WHERE clause names the owner only
FindByOwner(key) ==
    LET found == {r \in prs : r.key[1] = key[1]}
    IN  IF found = {} THEN NoRow
        ELSE CHOOSE r \in found : r.id = Min({q.id : q \in found})

\* a write that adds one to the stored count whatever the caller computed
IncrementApprovals(id, n) ==
    {IF r.id = id THEN [r EXCEPT !.cur = IF n = 0 THEN 0 ELSE @ + 1] ELSE r : r \in prs}

\* a write of the count that sets the status with it when the count is reset
UpdateApprovalsWithStatus(id, n) ==
    {IF r.id = id
     THEN [r EXCEPT !.cur = n, !.status = IF n = 0 THEN "changes_requested" ELSE @]
     ELSE r : r \in prs}

\* FindPullRequest: QueryRow keeps the first row of the scan, the lowest rowid
FindPullRequest(key) ==
    LET hits == {r \in prs : r.key = key}
    IN  IF hits = {} THEN NoRow
        ELSE CHOOSE r \in hits : r.id = Min({x.id : x \in hits})

UpdatePullRequestApprovals(id, n) ==
    {IF r.id = id THEN [r EXCEPT !.cur = n] ELSE r : r \in prs}

\* a status write that also clears the approval count of the row
UpdatePullRequestStatusAndCount(id, s) ==
    {IF r.id = id THEN [r EXCEPT !.status = s, !.cur = 0] ELSE r : r \in prs}

UpdatePullRequestStatus(id, s) ==
    {IF r.id = id THEN [r EXCEPT !.status = s] ELSE r : r \in prs}

UpdatePullRequestTitle(id, t) ==
    {IF r.id = id THEN [r EXCEPT !.title = t] ELSE r : r \in prs}

\* GetPullRequestsByTracker: the tracker's rows in rowid order
GetPullRequestsByTracker(t) ==
    LET ids == SelectSeq([i \in 1..lastPrId |-> i],
                         LAMBDA i : \E r \in prs : r.id = i /\ r.tracker = t)
    IN  [k \in 1..Len(ids) |-> CHOOSE r \in prs : r.id = ids[k]]

GetReviewersByPR(id) ==
    LET rows == SelectSeq(reviewers, LAMBDA r : r.pr = id)
    IN  [k \in 1..Len(rows) |-> rows[k].user]

\* a count that leaves out the tracker of the WHERE clause
OpenCountAll(t) ==
    Cardinality({r \in prs : r.status \notin {"merged", "closed"}})

\* CompleteTrackerIfDone: the count of non-terminal rows, then the update
OpenCount(t) ==
    Cardinality({r \in prs : r.tracker = t /\ r.status \notin {"merged", "closed"}})

CompleteTrackerIfDone(t) ==
    IF OpenCount(t) > 0 \/ t \notin 1..Len(trackers) THEN trackers
    ELSE [trackers EXCEPT ![t].status = "completed"]

\* a report of the rows the update changed: false on a completed tracker
ReportsChange(t) ==
    /\ OpenCount(t) = 0
    /\ t \in 1..Len(trackers)
    /\ trackers[t].status # "completed"

\* CompleteTrackerIfDone: the boolean it returns
CompletedReport(t) == OpenCount(t) = 0

----------------------------------------------------------------------------
(* Slack message of a tracker *)

statusEmoji(status) ==
    CASE status = "approved" -> ":white_check_mark:"
      [] status = "changes_requested" -> ":x:"
      [] status = "merged" -> ":purple_circle:"
      [] status = "closed" -> ":red_circle:"
      [] OTHER -> ":white_circle:"

statusLabel(status) ==
    CASE status = "approved" -> "approved"
      [] status = "changes_requested" -> "changes requested"
      [] status = "merged" -> "merged"
      [] status = "closed" -> "closed"
      [] OTHER -> "awaiting review"

NoSuffix == <<>>

PRLine(pr) ==
    [url |-> pr.url,
     label |-> IF pr.title # "" THEN <<pr.title>> ELSE pr.key,
     emoji |-> statusEmoji(pr.status),
     text |-> statusLabel(pr.status),
     suffix |-> IF pr.status \in {"merged", "closed"} THEN NoSuffix
                ELSE <<pr.cur, pr.req>>]

\* the text updateTrackerMessage builds from the rows of tracker t, the
\* mentions of its last line taken as a set: their order is that of the walk
\* of a Go map, which RenderedTexts draws
TrackerText(t) ==
    LET rows == GetPullRequestsByTracker(t)
    IN  [title |-> IF trackers[t].title = "" THEN "PR Tracker" ELSE trackers[t].title,
         done |-> trackers[t].status = "completed",
         lines |-> [k \in 1..Len(rows) |-> PRLine(rows[k])],
         mentions |-> {u \in Users : \E k \in 1..Len(rows) :
                          \E j \in 1..Len(GetReviewersByPR(rows[k].id)) :
                              GetReviewersByPR(rows[k].id)[j] = u}]

\* UpdateMessage(channel, ts, text): Slack refuses a ts that names no message
UpdateMessage(ts, text) ==
    IF ts \in 1..Len(chat) THEN [chat EXCEPT ![ts].text = text] ELSE chat

----------------------------------------------------------------------------
(* GitHub webhook events *)

NoEvent == [type |-> "none"]

\* pull_request_review: the action, the review state and the reviewer's login
ReviewEvents ==
    [type : {"pull_request_review"}, action : {"submitted"},
     state : {"approved", "changes_requested", "commented"},
     key : EventKeys, merged : {FALSE}, title : {""}, user : EventLogins]
    \cup [type : {"pull_request_review"}, action : {"dismissed"}, state : {"approved"},
          key : EventKeys, merged : {FALSE}, title : {""}, user : {"alice"}]

\* pull_request: the action, the merged flag and the title of the pull request
PullRequestEvents ==
    [type : {"pull_request"}, action : {"closed"}, state : {""},
     key : EventKeys, merged : BOOLEAN, title : EventTitles, user : {""}]
    \cup [type : {"pull_request"}, action : {"edited"}, state : {""},
          key : EventKeys, merged : {FALSE}, title : EventTitles, user : {""}]

OtherEvents ==
    [type : {"push"}, action : {""}, state : {""},
     key : {UntrackedTriple}, merged : {FALSE}, title : {""}, user : {""}]

Events == ReviewEvents \cup PullRequestEvents \cup OtherEvents

\* the text a handler has built from the rows it read, before it is sent
NoText == [ts |-> 0]

IdleTask ==
    [pc |-> "idle", ev |-> NoEvent, pr |-> NoRow, out |-> NoText, was |-> "",
     log |-> <<>>, resp |-> 0]

NoSub == [kind |-> "none"]

AllIdle == (\A h \in Handlers : task[h].pc = "idle") /\ sub = NoSub

\* a store or Slack call fails only while the fault budget lasts
Outcomes == IF faults > 0 THEN BOOLEAN ELSE {TRUE}

Spend(ok) == faults' = IF ok THEN faults ELSE faults - 1

Finish(t) == [t EXCEPT !.pc = "done", !.resp = 200]

Logged(t, what) == [t EXCEPT !.log = Append(@, what)]

\* a filter that looks at the action of a review event only
IgnoredByAction(ev) ==
    \/ ev.type \notin {"pull_request_review", "pull_request"}
    \/ ev.type = "pull_request_review" /\ ev.action # "submitted"

\* the events handlePRReview and the type switch return on at once
Ignored(ev) ==
    \/ ev.type \notin {"pull_request_review", "pull_request"}
    \/ /\ ev.type = "pull_request_review"
       /\ \/ ev.action # "submitted"
          \/ ev.state \notin {"approved", "changes_requested"}

\* the counters of the model stay within MaxApprovals
WithinBounds(ev) ==
    (ev.type = "pull_request_review" /\ ev.action = "submitted" /\ ev.state = "approved")
        => \A r \in prs : r.key = ev.key => r.cur < MaxApprovals

\* handleGitHubWebhook: the type switch, and the early returns of the handler
Receive(h, ev) ==
    /\ task[h].pc = "idle"
    /\ WithinBounds(ev)
    /\ task' = [task EXCEPT ![h] =
                   IF Ignored(ev) THEN Finish([IdleTask EXCEPT !.ev = ev])
                   ELSE [IdleTask EXCEPT !.ev = ev, !.pc = "find"]]
    /\ UNCHANGED <<store, chat, sub, faults>>

\* findTrackedPR: nil when no row matches and when the query fails
FindTrackedPR(h) ==
    /\ task[h].pc = "find"
    /\ \E ok \in Outcomes :
         /\ Spend(ok)
         /\ LET pr == IF ok THEN FindPullRequest(task[h].ev.key) ELSE NoRow
            IN  task' = [task EXCEPT ![h] =
                    IF pr = NoRow THEN Finish(@)
                    ELSE [@ EXCEPT !.pr = pr,
                                   !.pc = IF task[h].ev.type = "pull_request_review"
                                          THEN "approvals" ELSE "title"]]
    /\ UNCHANGED <<store, chat, sub, budget>>

\* a count that stops at the required number
NewApprovalsCapped(t) ==
    IF t.ev.state # "approved" THEN 0
    ELSE IF t.pr.cur >= t.pr.req THEN t.pr.cur ELSE t.pr.cur + 1

\* the guard of the revision that promoted open pull requests only
WritesStatusWhenOpen(t) ==
    IF t.ev.state = "approved"
    THEN t.pr.cur + 1 >= t.pr.req /\ t.pr.status = "open"
    ELSE TRUE

\* a guard that leaves merged and closed pull requests alone
WritesStatusUnlessTerminal(t) ==
    IF t.ev.state = "approved"
    THEN t.pr.cur + 1 >= t.pr.req /\ t.pr.status # "approved"
    ELSE t.pr.status \notin {"merged", "closed"}

\* handlePRReview: the approval count the handler writes
NewApprovals(t) == IF t.ev.state = "approved" THEN t.pr.cur + 1 ELSE 0

\* handlePRReview: whether a status write follows the count write
ReviewWritesStatus(t) ==
    IF t.ev.state = "approved"
    THEN NewApprovals(t) >= t.pr.req /\ t.pr.status # "approved"
    ELSE TRUE

ReviewStatus(t) == IF t.ev.state = "approved" THEN "approved" ELSE "changes_requested"

\* handlePRReview: db.UpdatePullRequestApprovals
ReviewApprovals(h) ==
    /\ task[h].pc = "approvals"
    /\ \E ok \in Outcomes :
         /\ Spend(ok)
         /\ IF ok
            THEN /\ prs' = UpdatePullRequestApprovals(task[h].pr.id, NewApprovals(task[h]))
                 /\ task' = [task EXCEPT ![h] =
                       [Logged(@, "approvals") EXCEPT
                           !.pc = IF ReviewWritesStatus(task[h]) THEN "status" ELSE "render"]]
            ELSE /\ prs' = prs
                 /\ task' = [task EXCEPT ![h] = Finish(@)]
    /\ UNCHANGED <<trackers, lastPrId, reviewers, chat, sub, budget>>

\* a closed event that is never taken as a merge
AlwaysClosed(ev) == "closed"

\* handlePRStateChange: the status a closed event writes
ClosedStatus(ev) == IF ev.merged THEN "merged" ELSE "closed"

\* a status write whose failure is logged and passed over
WriteStatusOrGoOn(h) ==
    /\ task[h].pc = "status"
    /\ \E ok \in Outcomes :
         /\ Spend(ok)
         /\ prs' = IF ok
                   THEN UpdatePullRequestStatus(task[h].pr.id,
                            IF task[h].ev.type = "pull_request_review"
                            THEN ReviewStatus(task[h]) ELSE ClosedStatus(task[h].ev))
                   ELSE prs
         /\ task' = [task EXCEPT ![h] =
               [(IF ok THEN Logged(@, "status") ELSE @) EXCEPT
                   !.pc = IF task[h].ev.type = "pull_request_review"
                          THEN "render" ELSE "complete"]]
    /\ UNCHANGED <<trackers, lastPrId, reviewers, chat, sub, budget>>

\* db.UpdatePullRequestStatus of handlePRReview and of handlePRStateChange
WriteStatus(h) ==
    /\ task[h].pc = "status"
    /\ \E ok \in Outcomes :
         /\ Spend(ok)
         /\ IF ok
            THEN /\ prs' = UpdatePullRequestStatus(task[h].pr.id,
                               IF task[h].ev.type = "pull_request_review"
                               THEN ReviewStatus(task[h]) ELSE ClosedStatus(task[h].ev))
                 /\ task' = [task EXCEPT ![h] =
                       [Logged(@, "status") EXCEPT
                           !.pc = IF task[h].ev.type = "pull_request_review"
                                  THEN "render" ELSE "complete"]]
            ELSE /\ prs' = prs
                 /\ task' = [task EXCEPT ![h] = Finish(@)]
    /\ UNCHANGED <<trackers, lastPrId, reviewers, chat, sub, budget>>

\* a sync that takes any title that differs, the empty one too
TitleDiffers(t) == t.ev.title # t.pr.title

\* handlePRStateChange: the title sync; a failed write is logged and passed over
TitleChanged(t) == t.ev.title # "" /\ t.ev.title # t.pr.title

SyncTitle(h) ==
    /\ task[h].pc = "title"
    /\ LET next == IF task[h].ev.action # "closed" THEN "render" ELSE "status"
       IN  IF TitleChanged(task[h])
           THEN \E ok \in Outcomes :
                  /\ Spend(ok)
                  /\ IF ok
                     THEN /\ prs' = UpdatePullRequestTitle(task[h].pr.id, task[h].ev.title)
                          /\ task' = [task EXCEPT ![h] =
                                         [Logged(@, "title") EXCEPT !.pc = next]]
                     ELSE /\ prs' = prs
                          /\ task' = [task EXCEPT ![h].pc = next]
           ELSE /\ prs' = prs
                /\ faults' = faults
                /\ task' = [task EXCEPT ![h].pc = next]
    /\ UNCHANGED <<trackers, lastPrId, reviewers, chat, sub, budget>>

\* a completion check whose error ends the handler
CheckCompletionOrReturn(h) ==
    /\ task[h].pc = "complete"
    /\ \E ok \in Outcomes :
         /\ Spend(ok)
         /\ trackers' = IF ok THEN CompleteTrackerIfDone(task[h].pr.tracker) ELSE trackers
         /\ task' = [task EXCEPT ![h] =
               IF ok THEN [Logged(@, "complete") EXCEPT !.pc = "render"] ELSE Finish(@)]
    /\ UNCHANGED <<prs, lastPrId, reviewers, chat, sub, budget>>

\* handlePRStateChange: db.CompleteTrackerIfDone; its error is logged only
CheckCompletion(h) ==
    /\ task[h].pc = "complete"
    /\ \E ok \in Outcomes :
         /\ Spend(ok)
         /\ trackers' = IF ok THEN CompleteTrackerIfDone(task[h].pr.tracker) ELSE trackers
         /\ task' = [task EXCEPT ![h] =
               [(IF ~ok THEN @
                 ELSE IF CompletedReport(task[h].pr.tracker)
                      THEN Logged(Logged(@, "complete"), "completed")
                      ELSE Logged(@, "complete")) EXCEPT
                   !.pc = "render",
                   !.was = IF task[h].pr.tracker \in 1..Len(trackers)
                           THEN trackers[task[h].pr.tracker].status ELSE ""]]
    /\ UNCHANGED <<prs, lastPrId, reviewers, chat, sub, budget>>

\* how a call of updateTrackerMessage ends: the reads fail, the Slack call
\* fails, or the message is updated
RenderOutcomes == IF faults > 0 THEN {"read", "send", "ok"} ELSE {"ok"}

\* updateTrackerMessage: the tracker, its rows and their reviewers are read
\* and the text is built
RenderRead(h) ==
    /\ task[h].pc = "render"
    /\ LET t == task[h].pr.tracker
       IN  \E ok \in Outcomes :
             /\ Spend(ok)
             /\ task' = [task EXCEPT ![h] =
                   IF ok /\ t \in 1..Len(trackers)
                   THEN [@ EXCEPT !.pc = "send",
                                  !.out = [ts |-> trackers[t].ts, text |-> TrackerText(t)]]
                   ELSE Finish(@)]
    /\ UNCHANGED <<store, chat, sub, budget>>

\* updateTrackerMessage: slackClient.UpdateMessage with the text built
RenderSend(h) ==
    /\ task[h].pc = "send"
    /\ \E ok \in Outcomes :
         /\ Spend(ok)
         /\ chat' = IF ok THEN UpdateMessage(task[h].out.ts, task[h].out.text) ELSE chat
         /\ task' = [task EXCEPT ![h] = Finish(Logged(@, "update"))]
    /\ UNCHANGED <<store, sub, budget>>

\* updateTrackerMessage as the handlers call it
RenderMessage(h) == RenderRead(h) \/ RenderSend(h)

\* the handling task ends: the response is out and its locals are gone
Return(h) ==
    /\ task[h].pc = "done"
    /\ task' = [task EXCEPT ![h] = IdleTask]
    /\ UNCHANGED <<store, chat, sub, budget, faults>>

HandlerStep(h) ==
    \/ FindTrackedPR(h)
    \/ ReviewApprovals(h)
    \/ WriteStatus(h)
    \/ SyncTitle(h)
    \/ CheckCompletion(h)
    \/ RenderMessage(h)
    \/ Return(h)

----------------------------------------------------------------------------
(* GitHub REST API as the submission handlers use it *)

\* a pull-request URL typed into a slot: host, path segments, trailing slash
GithubURL(repo, n) ==
    [pad |-> FALSE, host |-> "github.com", path |-> <<"o", repo, "pull", n>>]

RawInputs ==
    {GithubURL("r1", "1"), GithubURL("r1", "2"),
     [pad |-> FALSE, host |-> "", path |-> <<>>],
     [pad |-> TRUE, host |-> "github.com", path |-> <<"o", "r1", "pull", "x">>]}

\* strconv.Atoi on the numerals of the model
Atoi(s) ==
    CASE s = "1" -> [n |-> 1, err |-> FALSE]
      [] s = "2" -> [n |-> 2, err |-> FALSE]
      [] s = "9" -> [n |-> 9, err |-> FALSE]
      [] OTHER -> [n |-> 0, err |-> TRUE]

NoParse == [err |-> TRUE]

\* parsePRURL: trim, the host, four path parts with "pull" third, a number last
parsePRURL(raw) ==
    LET trimmed == [raw EXCEPT !.pad = FALSE]
    IN  IF trimmed.host # "github.com" THEN NoParse
        ELSE IF Len(trimmed.path) # 4 \/ trimmed.path[3] # "pull" THEN NoParse
        ELSE IF Atoi(trimmed.path[4]).err THEN NoParse
        ELSE [err |-> FALSE, owner |-> trimmed.path[1], repo |-> trimmed.path[2],
              number |-> Atoi(trimmed.path[4]).n, url |-> trimmed]

TripleOf(p) == <<p.owner, p.repo, p.number>>

\* answers of GET /repos and GET /branches/{b}/protection
ProtectionAnswers ==
    {[repoErr |-> TRUE, branch |-> "", protErr |-> "", count |-> 0],
     [repoErr |-> FALSE, branch |-> "", protErr |-> "", count |-> 0],
     [repoErr |-> FALSE, branch |-> "main", protErr |-> "404", count |-> 0],
     [repoErr |-> FALSE, branch |-> "main", protErr |-> "500", count |-> 0]}
    \cup [repoErr : {FALSE}, branch : {"main"}, protErr : {""}, count : 0..MaxRequired]

\* the configured count taken as it is, zero included
fetchRequiredApprovalsAsConfigured(a) ==
    IF a.repoErr THEN [required |-> 1, err |-> TRUE]
    ELSE IF a.branch = "" THEN [required |-> 1, err |-> FALSE]
    ELSE IF a.protErr = "404" THEN [required |-> 1, err |-> FALSE]
    ELSE IF a.protErr # "" THEN [required |-> 1, err |-> TRUE]
    ELSE [required |-> a.count, err |-> FALSE]

\* fetchRequiredApprovals: the count and whether an error is returned
fetchRequiredApprovals(a) ==
    IF a.repoErr THEN [required |-> 1, err |-> TRUE]
    ELSE IF a.branch = "" THEN [required |-> 1, err |-> FALSE]
    ELSE IF a.protErr = "404" THEN [required |-> 1, err |-> FALSE]
    ELSE IF a.protErr # "" THEN [required |-> 1, err |-> TRUE]
    ELSE IF a.count > 0 THEN [required |-> a.count, err |-> FALSE]
    ELSE [required |-> 1, err |-> FALSE]

\* the callers' use of it: an error is logged and 1 is taken
RequiredOrDefault(a) ==
    IF fetchRequiredApprovals(a).err THEN 1 ELSE fetchRequiredApprovals(a).required

Logins == {"alice", "bob"}
ReviewStates == {"APPROVED", "CHANGES_REQUESTED", "COMMENTED"}
MaxReviews == 2

Reviews == [user : Logins, state : ReviewStates]

ReviewLists == UNION {[1..n -> Reviews] : n \in 0..MaxReviews}

\* answers of GET /pulls/{n} and GET /pulls/{n}/reviews
PullHeads ==
    {[getErr |-> FALSE, title |-> "A", merged |-> FALSE, state |-> "open"],
     [getErr |-> FALSE, title |-> "A", merged |-> FALSE, state |-> "closed"],
     [getErr |-> FALSE, title |-> "A", merged |-> TRUE, state |-> "closed"]}

PullAnswers ==
    {[getErr |-> TRUE, title |-> "", merged |-> FALSE, state |-> "",
      listErr |-> FALSE, reviews |-> <<>>]}
    \cup {[getErr |-> FALSE, title |-> p.title, merged |-> p.merged, state |-> p.state,
           listErr |-> TRUE, reviews |-> <<>>] : p \in PullHeads}
    \cup {[getErr |-> FALSE, title |-> p.title, merged |-> p.merged, state |-> p.state,
           listErr |-> FALSE, reviews |-> r] : p \in PullHeads, r \in ReviewLists}

\* a reduction that keeps the first actionable review of each user
FirstByUser(reviews, n) ==
    [u \in Logins |->
        LET mine == {i \in 1..n : /\ reviews[i].user = u
                                  /\ reviews[i].state \in {"APPROVED", "CHANGES_REQUESTED"}}
        IN  IF mine = {} THEN "" ELSE reviews[Min(mine)].state]

\* the latest actionable review state of each user ("" when the user has none)
RECURSIVE LatestByUser(_, _)
LatestByUser(reviews, n) ==
    IF n = 0 THEN [u \in Logins |-> ""]
    ELSE LET before == LatestByUser(reviews, n - 1)
             r == reviews[n]
         IN  IF r.state \in {"APPROVED", "CHANGES_REQUESTED"}
             THEN [before EXCEPT ![r.user] = r.state]
             ELSE before

ZeroState ==
    [title |-> "", approvals |-> 0, changesRequested |-> FALSE,
     merged |-> FALSE, closed |-> FALSE, err |-> FALSE]

\* fetchPRReviewState: the state returned, with err set when a call failed
fetchPRReviewState(a) ==
    IF a.getErr THEN [ZeroState EXCEPT !.err = TRUE]
    ELSE LET head == [ZeroState EXCEPT !.title = a.title,
                                       !.merged = a.merged,
                                       !.closed = ~a.merged /\ a.state = "closed"]
             latest == LatestByUser(a.reviews, Len(a.reviews))
         IN  IF a.listErr THEN [head EXCEPT !.err = TRUE]
             ELSE [head EXCEPT
                      !.approvals = Cardinality({u \in Logins : latest[u] = "APPROVED"}),
                      !.changesRequested =
                          \E u \in Logins : latest[u] = "CHANGES_REQUESTED"]

\* a chain that looks at the approvals before the requested changes
ApprovedFirstStatus(rs, approvalsRequired) ==
    CASE rs.merged -> "merged"
      [] rs.closed -> "closed"
      [] rs.approvals >= approvalsRequired -> "approved"
      [] rs.changesRequested -> "changes_requested"
      [] OTHER -> ""

\* a chain that takes any approval for enough
AnyApprovalStatus(rs, approvalsRequired) ==
    CASE rs.merged -> "merged"
      [] rs.closed -> "closed"
      [] rs.changesRequested -> "changes_requested"
      [] rs.approvals >= 1 -> "approved"
      [] OTHER -> ""

\* handleTrackPRSubmission: the initial status, "" when none is written
TrackInitialStatus(rs, approvalsRequired) ==
    CASE rs.merged -> "merged"
      [] rs.closed -> "closed"
      [] rs.changesRequested -> "changes_requested"
      [] rs.approvals >= approvalsRequired -> "approved"
      [] OTHER -> ""

\* handleEditTrackerSubmission: the initial status of an added pull request
EditInitialStatus(rs, approvalsRequired) ==
    CASE rs.merged -> "merged"
      [] rs.closed -> "closed"
      [] rs.changesRequested -> "changes_requested"
      [] rs.approvals >= approvalsRequired -> "approved"
      [] OTHER -> ""

\* handleTrackPRSubmission of server/server.go: the status written after the
\* fetch, "" when the fetch failed or no branch of the chain is taken
ServerInitialStatus(rs, approvalsRequired) ==
    IF rs.err THEN ""
    ELSE IF rs.merged THEN "merged"
    ELSE IF rs.closed THEN "closed"
    ELSE IF rs.changesRequested THEN "changes_requested"
    ELSE IF rs.approvals >= approvalsRequired THEN "approved"
    ELSE ""

----------------------------------------------------------------------------
(* Modal submissions: handleTrackPRSubmission, handleEditTrackerSubmission *)

MaxSlots == 1

SlotIds == 0..(MaxSlots - 1)

\* view state values: the raw text of the pr_url_block_<i> blocks present
FormValues == UNION {[D -> RawInputs] : D \in SUBSET SlotIds}

UserSelections == {<<"U1">>, <<"U2", "U1">>}

\* the slots read: indices 0, 1, ... up to the first index with no block
RECURSIVE SlotsRead(_, _)
SlotsRead(values, i) ==
    IF i \notin DOMAIN values THEN 0 ELSE 1 + SlotsRead(values, i + 1)

\* a loop that goes on after a slot failed to parse
LastBadSlot(values) ==
    LET n == SlotsRead(values, 0)
        bad == {i \in 0..(n - 1) : parsePRURL(values[i]).err}
    IN  IF bad = {} THEN -1 ELSE CHOOSE i \in bad : \A j \in bad : j <= i

\* the loop over the slots: the first slot that fails to parse, or -1
FirstBadSlot(values) ==
    LET n == SlotsRead(values, 0)
        bad == {i \in 0..(n - 1) : parsePRURL(values[i]).err}
    IN  IF bad = {} THEN -1 ELSE Min(bad)

ParsedSlots(values) ==
    [k \in 1..SlotsRead(values, 0) |-> parsePRURL(values[k - 1])]

\* a validation that lets a form without URLs through
ValidationErrorOfSlots(values) == FirstBadSlot(values)

\* the JSON answer "response_action": "errors" keyed by a block, or -1
ValidationError(values) ==
    IF FirstBadSlot(values) >= 0 THEN FirstBadSlot(values)
    ELSE IF SlotsRead(values, 0) = 0 THEN 0
    ELSE -1

NoCache == [r \in Repos |-> 0]

NoAnswer == [repoErr |-> FALSE, branch |-> "", protErr |-> "none", count |-> 0]

NewSub(kind, t, title, users, parsed) ==
    [kind |-> kind, pc |-> "start", tracker |-> t, title |-> title, users |-> users,
     parsed |-> parsed, i |-> 1, cache |-> NoCache, rs |-> ZeroState, prID |-> 0,
     seeded |-> "", resp |-> 0, block |-> -1, log |-> <<>>, form |-> <<>>]

Rejected(kind, block) ==
    [NewSub(kind, 0, "", <<>>, <<>>) EXCEPT !.pc = "done", !.resp = 422, !.block = block]

SubDone(s, code) == [s EXCEPT !.pc = "done", !.resp = code]

SubLogged(s, what) == [s EXCEPT !.log = Append(@, what)]

\* handleTrackPRSubmission: the slots are parsed and validated
TrackSubmit(values) ==
    /\ AllIdle
    /\ Len(trackers) < MaxTrackers
    /\ lastPrId + SlotsRead(values, 0) <= MaxPRs
    /\ sub' = [IF ValidationError(values) >= 0
               THEN Rejected("track", ValidationError(values))
               ELSE NewSub("track", 0, "", <<>>, ParsedSlots(values))
               EXCEPT !.form = values]
    /\ UNCHANGED <<store, chat, task, budget, faults>>

\* the title and the reviewers are read from the view state, then db.CreateTracker
SubCreateTracker ==
    /\ sub.kind = "track" /\ sub.pc = "start"
    /\ \E title \in TrackerTitles, users \in UserSelections, ok \in Outcomes :
         /\ Spend(ok)
         /\ IF ok
            THEN /\ trackers' = Append(trackers,
                       [channel |-> Channel, ts |-> 0, status |-> "active", title |-> title])
                 /\ sub' = [SubLogged(sub, "tracker") EXCEPT
                               !.title = title, !.users = users,
                               !.tracker = Len(trackers) + 1, !.pc = "required"]
            ELSE /\ trackers' = trackers
                 /\ sub' = SubDone(sub, 500)
    /\ UNCHANGED <<prs, lastPrId, reviewers, chat, task, budget>>

\* the approvalCache loop: one lookup for each repo among the parsed URLs,
\* answered from the given answers
SubRequiredFrom(answers) ==
    /\ sub.kind = "track" /\ sub.pc = "required"
    /\ \E a \in [Repos -> answers] :
         sub' = [sub EXCEPT
                    !.cache = [r \in Repos |->
                                  IF \E k \in 1..Len(sub.parsed) : sub.parsed[k].repo = r
                                  THEN RequiredOrDefault(a[r]) ELSE 0],
                    !.pc = "fetch"]
    /\ UNCHANGED <<store, chat, task, budget, faults>>

SubRequired == SubRequiredFrom(ProtectionAnswers)

\* fetchPRReviewState for the next pull request; the edit path looks the
\* required count up here, through its cache; the API answers from the
\* given answers
SubFetchFrom(protections, pulls) ==
    /\ sub.kind \in {"track", "edit"} /\ sub.pc = "fetch"
    /\ sub.i <= Len(sub.parsed)
    /\ LET repo == sub.parsed[sub.i].repo
       IN  \E a \in IF sub.cache[repo] = 0 THEN protections ELSE {NoAnswer},
              b \in pulls :
             sub' = [sub EXCEPT
                        !.cache = IF a = NoAnswer THEN @
                                  ELSE [@ EXCEPT ![repo] = RequiredOrDefault(a)],
                        !.rs = fetchPRReviewState(b),
                        !.seeded = "",
                        !.pc = "insert"]
    /\ UNCHANGED <<store, chat, task, budget, faults>>

SubFetch == SubFetchFrom(ProtectionAnswers, PullAnswers)

ApprovalsRequired(s) == s.cache[s.parsed[s.i].repo]

NextPR(s) == [s EXCEPT !.i = @ + 1,
                       !.pc = IF s.i + 1 <= Len(s.parsed) THEN "fetch"
                              ELSE IF s.kind = "track" THEN "post" ELSE "reviewers"]

\* db.CreatePullRequest: a failure ends the creation and is passed over by the edit
SubInsert ==
    /\ sub.kind \in {"track", "edit"} /\ sub.pc = "insert"
    /\ \E ok \in Outcomes :
         /\ Spend(ok)
         /\ IF ok
            THEN /\ prs' = prs \cup
                       {PRRow(lastPrId + 1, sub.tracker, TripleOf(sub.parsed[sub.i]),
                              sub.parsed[sub.i].url, sub.rs.title, ApprovalsRequired(sub))}
                 /\ lastPrId' = lastPrId + 1
                 /\ sub' = [SubLogged(sub, "pr") EXCEPT
                               !.prID = lastPrId + 1, !.seeded = "", !.pc = "approvals"]
            ELSE /\ UNCHANGED <<prs, lastPrId>>
                 /\ sub' = IF sub.kind = "track" THEN SubDone(sub, 500) ELSE NextPR(sub)
    /\ UNCHANGED <<trackers, reviewers, chat, task, budget>>

\* the initial approval count, written when it is positive
SubSeedApprovals ==
    /\ sub.kind \in {"track", "edit"} /\ sub.pc = "approvals"
    /\ IF sub.rs.approvals > 0
       THEN \E ok \in Outcomes :
              /\ Spend(ok)
              /\ prs' = IF ok THEN UpdatePullRequestApprovals(sub.prID, sub.rs.approvals)
                        ELSE prs
              /\ sub' = [sub EXCEPT !.pc = "status"]
       ELSE /\ prs' = prs
            /\ faults' = faults
            /\ sub' = [sub EXCEPT !.pc = "status"]
    /\ UNCHANGED <<trackers, lastPrId, reviewers, chat, task, budget>>

InitialStatus(s) ==
    IF s.kind = "track" THEN TrackInitialStatus(s.rs, ApprovalsRequired(s))
    ELSE EditInitialStatus(s.rs, ApprovalsRequired(s))

\* the initial status, written when one was determined
SubSeedStatus ==
    /\ sub.kind \in {"track", "edit"} /\ sub.pc = "status"
    /\ LET after == IF sub.kind = "track" THEN [sub EXCEPT !.pc = "link"] ELSE NextPR(sub)
       IN  IF InitialStatus(sub) # ""
           THEN \E ok \in Outcomes :
                  /\ Spend(ok)
                  /\ prs' = IF ok THEN UpdatePullRequestStatus(sub.prID, InitialStatus(sub))
                            ELSE prs
                  /\ sub' = [after EXCEPT !.seeded = IF ok THEN "written" ELSE "failed"]
           ELSE /\ prs' = prs
                /\ faults' = faults
                /\ sub' = [after EXCEPT !.seeded = "none"]
    /\ UNCHANGED <<trackers, lastPrId, reviewers, chat, task, budget>>

ReviewerRows(id, users, n) == [k \in 1..n |-> [pr |-> id, user |-> users[k]]]

\* how many db.CreateReviewer calls succeed before one fails
LinkOutcomes(users) == IF faults > 0 THEN 0..Len(users) ELSE {Len(users)}

\* db.CreateReviewer for each selected user; the first failure ends the creation
SubLinkReviewers ==
    /\ sub.kind = "track" /\ sub.pc = "link"
    /\ \E n \in LinkOutcomes(sub.users) :
         /\ Spend(n = Len(sub.users))
         /\ reviewers' = reviewers \o ReviewerRows(sub.prID, sub.users, n)
         /\ sub' = IF n < Len(sub.users) THEN SubDone(sub, 500) ELSE NextPR(sub)
    /\ UNCHANGED <<trackers, prs, lastPrId, chat, task, budget>>

Placeholder(title) == [loading |-> title]

\* how the post and the save of its ts end
PostOutcomes == IF faults > 0 THEN {"post", "save", "ok"} ELSE {"ok"}

\* a post that saves the number of messages before it as the ts
SubPostStaleTS ==
    /\ sub.kind = "track" /\ sub.pc = "post"
    /\ \E how \in PostOutcomes :
         /\ Spend(how = "ok")
         /\ IF how # "post"
            THEN /\ chat' = Append(chat,
                       [channel |-> Channel, text |-> Placeholder(sub.title)])
                 /\ trackers' = IF how = "ok"
                                THEN [trackers EXCEPT ![sub.tracker].ts = Len(chat)]
                                ELSE trackers
                 /\ sub' = [SubLogged(sub, "post") EXCEPT !.pc = "refresh"]
            ELSE /\ UNCHANGED <<chat, trackers>>
                 /\ sub' = SubDone(sub, 200)
    /\ UNCHANGED <<prs, lastPrId, reviewers, task, budget>>

\* a post whose failure is followed by the refresh
SubPostThenRefresh ==
    /\ sub.kind = "track" /\ sub.pc = "post"
    /\ \E how \in PostOutcomes :
         /\ Spend(how = "ok")
         /\ chat' = IF how # "post"
                    THEN Append(chat, [channel |-> Channel, text |-> Placeholder(sub.title)])
                    ELSE chat
         /\ trackers' = IF how = "ok"
                        THEN [trackers EXCEPT ![sub.tracker].ts = Len(chat) + 1]
                        ELSE trackers
         /\ sub' = [sub EXCEPT !.pc = "refresh"]
    /\ UNCHANGED <<prs, lastPrId, reviewers, task, budget>>

\* postTrackerMessage, then db.UpdateTrackerMessageTS with the ts returned
SubPost ==
    /\ sub.kind = "track" /\ sub.pc = "post"
    /\ \E how \in PostOutcomes :
         /\ Spend(how = "ok")
         /\ IF how # "post"
            THEN /\ chat' = Append(chat,
                       [channel |-> Channel, text |-> Placeholder(sub.title)])
                 /\ trackers' = IF how = "ok"
                                THEN [trackers EXCEPT ![sub.tracker].ts = Len(chat) + 1]
                                ELSE trackers
                 /\ sub' = [SubLogged(sub, "post") EXCEPT !.pc = "refresh"]
            ELSE /\ UNCHANGED <<chat, trackers>>
                 /\ sub' = SubDone(sub, 200)
    /\ UNCHANGED <<prs, lastPrId, reviewers, task, budget>>

\* updateTrackerMessage at the end of both submissions
SubRefresh ==
    /\ sub.kind \in {"track", "edit"} /\ sub.pc = "refresh"
    /\ \E how \in RenderOutcomes :
         /\ Spend(how = "ok")
         /\ IF how # "read"
            THEN /\ chat' = IF how = "ok"
                            THEN UpdateMessage(trackers[sub.tracker].ts,
                                               TrackerText(sub.tracker))
                            ELSE chat
                 /\ sub' = SubDone(SubLogged(sub, "update"), 200)
            ELSE /\ chat' = chat
                 /\ sub' = SubDone(sub, 200)
    /\ UNCHANGED <<store, task, budget>>

\* db.DeletePullRequest: the row with this id is deleted
DeletePullRequest(rows, id) == {r \in rows : r.id # id}

\* db.DeleteReviewersByPR: the reviewer rows of this pull request are deleted
DeleteReviewersByPR(revs, id) == SelectSeq(revs, LAMBDA r : r.pr # id)

\* handleEditTrackerSubmission: the tracker id of the modal, the slots validated
EditSubmit(t, values) ==
    /\ AllIdle
    /\ t \in 1..Len(trackers)
    /\ lastPrId + Len(SelectSeq(ParsedSlots(values),
                                LAMBDA p : /\ ~p.err
                                           /\ \A r \in prs : r.tracker = t => r.url # p.url))
           <= MaxPRs
    /\ sub' = [IF ValidationError(values) >= 0
               THEN Rejected("edit", ValidationError(values))
               ELSE NewSub("edit", t, "", <<>>, ParsedSlots(values))
               EXCEPT !.form = values]
    /\ UNCHANGED <<store, chat, task, budget, faults>>

\* how the title update ends: GetTrackerByID fails, the update fails, or neither
EditTitleOutcomes == IF faults > 0 THEN {"get", "update", "ok"} ELSE {"ok"}

\* a title update that writes the whole tracker row, as created
EditTitleAsCreated ==
    /\ sub.kind = "edit" /\ sub.pc = "start"
    /\ \E title \in TrackerTitles, users \in UserSelections, how \in EditTitleOutcomes :
         /\ how = "update" => title # trackers[sub.tracker].title
         /\ Spend(how = "ok")
         /\ trackers' = IF how = "ok" /\ title # trackers[sub.tracker].title
                        THEN [trackers EXCEPT ![sub.tracker].title = title,
                                              ![sub.tracker].status = "active"]
                        ELSE trackers
         /\ sub' = IF how = "get" THEN SubDone(sub, 500)
                   ELSE [sub EXCEPT !.title = title, !.users = users, !.pc = "diff"]
    /\ UNCHANGED <<prs, lastPrId, reviewers, chat, task, budget>>

\* the title and reviewers are read; the title is updated when it changed
EditTitle ==
    /\ sub.kind = "edit" /\ sub.pc = "start"
    /\ \E title \in TrackerTitles, users \in UserSelections, how \in EditTitleOutcomes :
         /\ how = "update" => title # trackers[sub.tracker].title
         /\ Spend(how = "ok")
         /\ trackers' = IF how = "ok" /\ title # trackers[sub.tracker].title
                        THEN [trackers EXCEPT ![sub.tracker].title = title]
                        ELSE trackers
         /\ sub' = IF how = "get" THEN SubDone(sub, 500)
                   ELSE [sub EXCEPT !.title = title, !.users = users, !.pc = "diff"]
    /\ UNCHANGED <<prs, lastPrId, reviewers, chat, task, budget>>

\* the deletes that fail: none, or one while the fault budget lasts
DeleteFailures(ids) == {{}} \cup (IF faults > 0 THEN {{id} : id \in ids} ELSE {})

\* a diff that deletes no row
EditDiffKeepingRows ==
    /\ sub.kind = "edit" /\ sub.pc = "diff"
    /\ LET existing == {r \in prs : r.tracker = sub.tracker}
           added == SelectSeq(sub.parsed, LAMBDA p : \A r \in existing : r.url # p.url)
       IN  /\ prs' = prs
           /\ faults' = faults
           /\ sub' = [sub EXCEPT !.parsed = added, !.i = 1,
                                 !.pc = IF added = <<>> THEN "reviewers" ELSE "fetch"]
    /\ UNCHANGED <<trackers, lastPrId, reviewers, chat, task, budget>>

\* existing rows are read; rows whose URL was not submitted are deleted; the
\* submitted URLs not yet tracked are left to add
EditDiff ==
    /\ sub.kind = "edit" /\ sub.pc = "diff"
    /\ LET existing == {r \in prs : r.tracker = sub.tracker}
           submitted == {sub.parsed[k].url : k \in 1..Len(sub.parsed)}
           removed == {r.id : r \in {x \in existing : x.url \notin submitted}}
           added == SelectSeq(sub.parsed, LAMBDA p : \A r \in existing : r.url # p.url)
       IN  \/ /\ faults > 0
              /\ faults' = faults - 1
              /\ prs' = prs
              /\ sub' = SubDone(sub, 500)
           \/ \E failing \in DeleteFailures(removed) :
                /\ Spend(failing = {})
                /\ prs' = {r \in prs :
                              \A id \in removed \ failing : r \in DeletePullRequest(prs, id)}
                /\ sub' = [sub EXCEPT !.parsed = added, !.i = 1,
                                      !.pc = IF added = <<>> THEN "reviewers" ELSE "fetch"]
    /\ UNCHANGED <<trackers, lastPrId, reviewers, chat, task, budget>>

NoLinkFault == [kind |-> "none", pr |-> 0, k |-> 0]

\* the one call of the reviewer replacement that fails, if any
LinkFaults(rows, users) ==
    {NoLinkFault} \cup
    (IF faults > 0
     THEN {[kind |-> "get", pr |-> 0, k |-> 0]}
          \cup {[kind |-> "delete", pr |-> rows[j].id, k |-> 0] : j \in 1..Len(rows)}
          \cup {[kind |-> "create", pr |-> rows[j].id, k |-> k] :
                   j \in 1..Len(rows), k \in 1..Len(users)}
     ELSE {})

CreatedReviewers(id, users, f) ==
    LET kept == SelectSeq([k \in 1..Len(users) |-> k],
                          LAMBDA k : ~(f.kind = "create" /\ f.pr = id /\ f.k = k))
    IN  [j \in 1..Len(kept) |-> [pr |-> id, user |-> users[kept[j]]]]

\* a replacement that inserts the new reviewers without deleting the old ones
AppendReviewers(revs, rows, j, users, f) ==
    revs \o [k \in 1..(Len(rows) * Len(users)) |->
                [pr |-> rows[((k - 1) \div Len(users)) + 1].id,
                 user |-> users[((k - 1) % Len(users)) + 1]]]

\* for each row: delete its reviewers (a failure skips the row), insert the new ones
RECURSIVE ReplaceReviewers(_, _, _, _, _)
ReplaceReviewers(revs, rows, j, users, f) ==
    IF j > Len(rows) THEN revs
    ELSE IF f.kind = "delete" /\ f.pr = rows[j].id
         THEN ReplaceReviewers(revs, rows, j + 1, users, f)
         ELSE ReplaceReviewers(
                  DeleteReviewersByPR(revs, rows[j].id) \o CreatedReviewers(rows[j].id, users, f),
                  rows, j + 1, users, f)

\* the reviewers of every pull request of the tracker are replaced
EditReviewers ==
    /\ sub.kind = "edit" /\ sub.pc = "reviewers"
    /\ LET rows == GetPullRequestsByTracker(sub.tracker)
       IN  \E f \in LinkFaults(rows, sub.users) :
             /\ Spend(f = NoLinkFault)
             /\ reviewers' = IF f.kind = "get" THEN reviewers
                             ELSE ReplaceReviewers(reviewers, rows, 1, sub.users, f)
             /\ sub' = [sub EXCEPT !.pc = "refresh"]
    /\ UNCHANGED <<trackers, prs, lastPrId, chat, task, budget>>

\* the submission is answered
SubReturn ==
    /\ sub.kind # "none" /\ sub.pc = "done"
    /\ sub' = NoSub
    /\ UNCHANGED <<store, chat, task, budget, faults>>

----------------------------------------------------------------------------
(* Specifications *)

\* one request at a time: a webhook is received when every task is idle
ReceiveSerial(h) ==
    /\ AllIdle
    /\ \E ev \in Events : Receive(h, ev)
    /\ UNCHANGED budget

\* webhook deliveries handled by concurrent tasks
ReceiveConcurrent(h) ==
    /\ budget > 0
    /\ budget' = budget - 1
    /\ \E ev \in Events : Receive(h, ev)

SubmissionStep ==
    \/ \E v \in FormValues : TrackSubmit(v)
    \/ SubCreateTracker
    \/ SubRequired
    \/ SubFetch
    \/ SubInsert
    \/ SubSeedApprovals
    \/ SubSeedStatus
    \/ SubLinkReviewers
    \/ SubPost
    \/ SubRefresh
    \/ \E t \in 1..MaxTrackers, v \in FormValues : EditSubmit(t, v)
    \/ EditTitle
    \/ EditDiff
    \/ EditReviewers
    \/ SubReturn

\* the store is empty and no request is being handled
Init ==
    /\ trackers = <<>>
    /\ prs = {}
    /\ lastPrId = 0
    /\ reviewers = <<>>
    /\ chat = <<>>
    /\ task = [h \in Handlers |-> IdleTask]
    /\ sub = NoSub
    /\ budget = 0
    /\ faults = 0

\* requests are handled one at a time, the webhooks by the task h1
Next ==
    \/ ReceiveSerial("h1")
    \/ HandlerStep("h1")
    \/ SubmissionStep

Spec == Init /\ [][Next]_vars

\* the rows a tracker of one pull request holds once its creation has ended
\* and webhooks have been handled one at a time
TrackedRows ==
    {r \in [id : {1}, tracker : {1}, key : {<<"o", "r1", 1>>},
            url : {GithubURL("r1", "1")}, title : {"A"}, status : Statuses,
            req : 1..MaxRequired, cur : 0..(MaxApprovals - 1)] :
        /\ r.status = "approved" => r.cur >= r.req
        /\ r.status = "open" => r.cur < r.req}

\* a tracker with one pull request has been created and its message posted
InitConcurrent ==
    /\ trackers = <<[channel |-> Channel, ts |-> 1, status |-> "active", title |-> "T"]>>
    /\ \E r \in TrackedRows : prs = {r}
    /\ lastPrId = 1
    /\ reviewers = <<[pr |-> 1, user |-> "U1"]>>
    /\ chat = <<[channel |-> Channel, text |-> TrackerText(1)]>>
    /\ task = [h \in Handlers |-> IdleTask]
    /\ sub = NoSub
    /\ budget = MaxEvents
    /\ faults = 0

\* webhook deliveries are handled by concurrent tasks, statement by statement
NextConcurrent ==
    \E h \in Handlers :
        \/ ReceiveConcurrent(h)
        \/ HandlerStep(h)

SpecConcurrent == InitConcurrent /\ [][NextConcurrent]_vars

\* a row as a creation and webhooks handled one at a time leave it
\* the numeral of a pull-request number in a URL
Itoa(n) ==
    CASE n = 1 -> "1"
      [] n = 2 -> "2"
      [] OTHER -> "9"

StoredRow(id, t, key, status) ==
    [PRRow(id, t, key, GithubURL(key[2], Itoa(key[3])), "A", 1) EXCEPT
        !.status = status,
        !.cur = IF status = "approved" THEN 1 ELSE 0]

\* two trackers have been created, the first with two pull requests, the
\* second with a pull request of another repository; a store or Slack call
\* may fail
InitStored ==
    /\ trackers = <<[channel |-> Channel, ts |-> 1, status |-> "active", title |-> "T"],
                    [channel |-> Channel, ts |-> 2, status |-> "active", title |-> ""]>>
    /\ \E s1, s2 \in Statuses, s3 \in {"open", "merged"} :
          prs = {StoredRow(1, 1, <<"o", "r1", 1>>, s1),
                 StoredRow(2, 1, <<"o", "r1", 2>>, s2),
                 StoredRow(3, 2, OtherTriple, s3)}
    /\ lastPrId = 3
    /\ reviewers = <<[pr |-> 1, user |-> "U1"], [pr |-> 2, user |-> "U2"],
                     [pr |-> 3, user |-> "U2"]>>
    /\ chat = <<[channel |-> Channel, text |-> TrackerText(1)],
                [channel |-> Channel, text |-> TrackerText(2)]>>
    /\ task = [h \in Handlers |-> IdleTask]
    /\ sub = NoSub
    /\ budget = 0
    /\ faults \in 0..MaxFaults

\* webhooks are handled one at a time on the stored trackers
NextStored ==
    \/ ReceiveSerial("h1")
    \/ HandlerStep("h1")

SpecStored == InitStored /\ [][NextStored]_vars

\* the scenario: one pull request of a repository that requires two
\* approvals, one of which the snapshot holds; then an approved review, a
\* request for changes and a merge, by any reviewer
ScenarioForm == [i \in {0} |-> GithubURL("r1", "1")]

ScenarioProtection == [repoErr |-> FALSE, branch |-> "main", protErr |-> "", count |-> 2]

ScenarioPull ==
    [getErr |-> FALSE, title |-> "A", merged |-> FALSE, state |-> "open",
     listErr |-> FALSE, reviews |-> <<[user |-> "alice", state |-> "APPROVED"]>>]

ScenarioEvents ==
    <<{ev \in ReviewEvents : /\ ev.action = "submitted" /\ ev.state = "approved"
                             /\ ev.key = <<"o", "r1", 1>>},
      {ev \in ReviewEvents : /\ ev.action = "submitted" /\ ev.state = "changes_requested"
                             /\ ev.key = <<"o", "r1", 1>>},
      {ev \in PullRequestEvents : /\ ev.action = "closed" /\ ev.merged
                                  /\ ev.key = <<"o", "r1", 1>>}>>

\* the next event of the scenario is delivered once the creation has ended
\* and the event before it has been handled
ReceiveScripted(h) ==
    /\ AllIdle
    /\ lastPrId = 1
    /\ budget > 0
    /\ budget' = budget - 1
    /\ \E ev \in ScenarioEvents[Len(ScenarioEvents) - budget + 1] : Receive(h, ev)

InitScenario ==
    /\ trackers = <<>>
    /\ prs = {}
    /\ lastPrId = 0
    /\ reviewers = <<>>
    /\ chat = <<>>
    /\ task = [h \in Handlers |-> IdleTask]
    /\ sub = NoSub
    /\ budget = Len(ScenarioEvents)
    /\ faults = 0

NextScenario ==
    \/ TrackSubmit(ScenarioForm)
    \/ SubCreateTracker
    \/ SubRequiredFrom({ScenarioProtection})
    \/ SubFetchFrom({ScenarioProtection}, {ScenarioPull})
    \/ SubInsert
    \/ SubSeedApprovals
    \/ SubSeedStatus
    \/ SubLinkReviewers
    \/ SubPost
    \/ SubRefresh
    \/ SubReturn
    \/ ReceiveScripted("h1")
    \/ HandlerStep("h1")

SpecScenario == InitScenario /\ [][NextScenario]_vars

\* the view state of a submitted form: any of the blocks pr_url_block_0,
\* pr_url_block_1, ... present, each holding any text
SlotForms == UNION {[D -> RawInputs] : D \in SUBSET (0..MaxPRs)}

\* the store is empty and a store or Slack call may fail
InitFaulty ==
    /\ trackers = <<>>
    /\ prs = {}
    /\ lastPrId = 0
    /\ reviewers = <<>>
    /\ chat = <<>>
    /\ task = [h \in Handlers |-> IdleTask]
    /\ sub = NoSub
    /\ budget = 0
    /\ faults \in 0..MaxFaults

\* creations and edits, one at a time, with forms of several slots, the API
\* answering as in the scenario
NextSubmissions ==
    \/ \E v \in SlotForms : TrackSubmit(v)
    \/ SubCreateTracker
    \/ SubRequiredFrom({ScenarioProtection})
    \/ SubFetchFrom({ScenarioProtection}, {ScenarioPull})
    \/ SubInsert
    \/ SubSeedApprovals
    \/ SubSeedStatus
    \/ SubLinkReviewers
    \/ SubPost
    \/ SubRefresh
    \/ \E t \in 1..MaxTrackers, v \in SlotForms : EditSubmit(t, v)
    \/ EditTitle
    \/ EditDiff
    \/ EditReviewers
    \/ SubReturn

\* every store and Slack call succeeds
SpecSlots == Init /\ [][NextSubmissions]_vars

\* one store or Slack call may fail
SpecSubmissions == InitFaulty /\ [][NextSubmissions]_vars

\* a call of fetchPRReviewState, answered by the API in any way
InitSnapshot ==
    /\ trackers = <<>>
    /\ prs = {}
    /\ lastPrId = 0
    /\ reviewers = <<>>
    /\ chat = <<>>
    /\ task = [h \in Handlers |-> IdleTask]
    /\ \E b \in PullAnswers : sub = [kind |-> "fetch", pc |-> "call", answer |-> b,
                                     rs |-> ZeroState]
    /\ budget = 0
    /\ faults = 0

\* fetchPRReviewState returns
FetchSnapshot ==
    /\ sub.kind = "fetch" /\ sub.pc = "call"
    /\ sub' = [sub EXCEPT !.rs = fetchPRReviewState(sub.answer), !.pc = "returned"]
    /\ UNCHANGED <<store, chat, task, budget, faults>>

SpecSnapshot == InitSnapshot /\ [][FetchSnapshot]_vars

----------------------------------------------------------------------------
(* The modals and their add and remove buttons *)

MaxFormSlots == 3

EmptyText == [pad |-> FALSE, host |-> "", path |-> <<>>]

\* what a user may have typed into a URL slot, and selected as reviewers
FormTexts == {EmptyText, GithubURL("r1", "1")}

FormUsers == {<<>>} \cup UserSelections

\* buildTrackModalBlocks: the title input, numURLFields URL inputs, the Add
\* button, the Remove button when there are two slots or more, the reviewer
\* select; no input has an initial value
buildTrackModalBlocks(numURLFields) ==
    [title |-> "",
     urls |-> [i \in 0..(numURLFields - 1) |-> EmptyText],
     remove |-> numURLFields > 1,
     users |-> <<>>]

\* buildEditModalBlocks: the same blocks with the title, the URLs and the
\* reviewers as the initial values of their inputs
buildEditModalBlocks(title, urls, numURLFields, reviewerIDs) ==
    [title |-> title,
     urls |-> [i \in 0..(numURLFields - 1) |->
                  IF i < Len(urls) THEN urls[i + 1] ELSE EmptyText],
     remove |-> numURLFields > 1,
     users |-> reviewerIDs]

ModalViewRequest(callback, meta, blocks) ==
    [callback |-> callback, meta |-> meta, blocks |-> blocks]

NoPayload == [action |-> ""]

\* a modal on screen: the view Slack holds, the last view request the
\* handlers built and the payload it was built from
Modal(view) ==
    [kind |-> "modal", pc |-> "form", view |-> view, built |-> view, payload |-> NoPayload]

\* openTrackModal: the create form, with one URL field
OpenTrackModal ==
    /\ AllIdle
    /\ \E ok \in Outcomes :
         /\ Spend(ok)
         /\ sub' = IF ok
                   THEN Modal(ModalViewRequest("track_pr", Channel, buildTrackModalBlocks(1)))
                   ELSE NoSub
    /\ UNCHANGED <<store, chat, task, budget>>

\* the orders in which a map of reviewer ids is walked
Orderings(S) ==
    {q \in [1..Cardinality(S) -> S] : \A i, j \in 1..Cardinality(S) : q[i] = q[j] => i = j}

\* handleEditTrackerButton: the edit form of a tracker, filled with its title,
\* the URLs of its pull requests and their reviewers
OpenEditModal(t) ==
    /\ AllIdle
    /\ t \in 1..Len(trackers)
    /\ LET rows == GetPullRequestsByTracker(t)
           prURLs == [k \in 1..Len(rows) |-> rows[k].url]
           reviewerSet == UNION {{GetReviewersByPR(rows[k].id)[j] :
                                     j \in 1..Len(GetReviewersByPR(rows[k].id))} :
                                 k \in 1..Len(rows)}
           numFields == IF Len(prURLs) = 0 THEN 1 ELSE Len(prURLs)
       IN  \E ok \in Outcomes, reviewerIDs \in Orderings(reviewerSet) :
             /\ Spend(ok)
             /\ sub' = IF ok
                       THEN Modal(ModalViewRequest("edit_tracker", t,
                                buildEditModalBlocks(trackers[t].title, prURLs,
                                                     numFields, reviewerIDs)))
                       ELSE NoSub
    /\ UNCHANGED <<store, chat, task, budget>>

\* a remove that does not look at the number of fields
NumURLFieldsUnguarded(action, values) ==
    IF action = "add_pr_url" THEN SlotsRead(values, 0) + 1 ELSE SlotsRead(values, 0) - 1

\* handleAddRemovePR: the number of URL fields of the rebuilt modal
NumURLFields(action, values) ==
    IF action = "add_pr_url" THEN SlotsRead(values, 0) + 1
    ELSE IF SlotsRead(values, 0) > 1 THEN SlotsRead(values, 0) - 1
    ELSE SlotsRead(values, 0)

\* handleAddRemovePR: the texts of the slots, without the last on a remove
currentURLs(action, values) ==
    LET n == SlotsRead(values, 0)
        all == [k \in 1..n |-> values[k - 1]]
    IN  IF action # "add_pr_url" /\ n > 1 THEN SubSeq(all, 1, n - 1) ELSE all

\* handleAddRemovePR: the view request built from the payload of a button
handleAddRemovePR(payload) ==
    ModalViewRequest(payload.callback, payload.meta,
        IF payload.callback = "edit_tracker"
        THEN buildEditModalBlocks(payload.title,
                                  currentURLs(payload.action, payload.urls),
                                  NumURLFields(payload.action, payload.urls),
                                  payload.users)
        ELSE buildTrackModalBlocks(NumURLFields(payload.action, payload.urls)))

\* a button of the modal is pressed after the user has typed and selected
\* what the payload carries; slackClient.UpdateView replaces the view
AddRemove(action) ==
    /\ sub.kind = "modal"
    /\ action = "add_pr_url" => SlotsRead(sub.view.blocks.urls, 0) < MaxFormSlots
    /\ \E title \in TrackerTitles, urls \in [DOMAIN sub.view.blocks.urls -> FormTexts],
          users \in FormUsers, ok \in Outcomes :
         LET payload == [action |-> action, callback |-> sub.view.callback,
                         meta |-> sub.view.meta, title |-> title, urls |-> urls,
                         users |-> users]
         IN  /\ Spend(ok)
             /\ sub' = [sub EXCEPT !.payload = payload,
                                   !.built = handleAddRemovePR(payload),
                                   !.view = IF ok THEN handleAddRemovePR(payload) ELSE @]
    /\ UNCHANGED <<store, chat, task, budget>>

\* the modal is cancelled
CloseModal ==
    /\ sub.kind = "modal"
    /\ sub' = NoSub
    /\ UNCHANGED <<store, chat, task, budget, faults>>

\* a tracker of two pull requests and a tracker of none have been created
InitForm ==
    /\ trackers = <<[channel |-> Channel, ts |-> 1, status |-> "active", title |-> "T"],
                    [channel |-> Channel, ts |-> 2, status |-> "active", title |-> ""]>>
    /\ prs = {StoredRow(1, 1, <<"o", "r1", 1>>, "open"),
              StoredRow(2, 1, <<"o", "r1", 2>>, "open")}
    /\ lastPrId = 2
    /\ reviewers = <<[pr |-> 1, user |-> "U1"], [pr |-> 1, user |-> "U2"],
                     [pr |-> 2, user |-> "U1"]>>
    /\ chat = <<[channel |-> Channel, text |-> TrackerText(1)],
                [channel |-> Channel, text |-> TrackerText(2)]>>
    /\ task = [h \in Handlers |-> IdleTask]
    /\ sub = NoSub
    /\ budget = 0
    /\ faults \in 0..MaxFaults

NextForm ==
    \/ OpenTrackModal
    \/ \E t \in 1..Len(trackers) : OpenEditModal(t)
    \/ AddRemove("add_pr_url")
    \/ AddRemove("remove_pr_url")
    \/ CloseModal

SpecForm == InitForm /\ [][NextForm]_vars

----------------------------------------------------------------------------
(* The texts of repeated renderings *)

\* updateTrackerMessage: the texts it can build from the rows of tracker t,
\* one for each order in which the map of reviewers is walked
RenderedTexts(t) ==
    {[title |-> TrackerText(t).title, done |-> TrackerText(t).done,
      lines |-> TrackerText(t).lines, mentions |-> TrackerText(t).mentions,
      order |-> q] : q \in Orderings(TrackerText(t).mentions)}

\* updateTrackerMessage is called for tracker t
Rerender(t) ==
    /\ AllIdle
    /\ t \in 1..Len(trackers)
    /\ \E how \in RenderOutcomes, text \in RenderedTexts(t) :
         /\ Spend(how = "ok")
         /\ chat' = IF how = "ok" THEN UpdateMessage(trackers[t].ts, text) ELSE chat
    /\ UNCHANGED <<store, task, sub, budget>>

\* the messages of the stored trackers are rendered again and again
NextRender == \E t \in 1..Len(trackers) : Rerender(t)

SpecRender == InitStored /\ [][NextRender]_vars

----------------------------------------------------------------------------
(* Properties of the webhook handlers and of the initial status *)

\* C1: once a pull request is merged or closed, no step of a handler of a
\* review event gives its row a status other than merged or closed
C1_TerminalStatusAbsorbing ==
    [][\A h \in Handlers :
          (task[h].ev.type = "pull_request_review" /\ task'[h] # task[h])
              => \A r \in prs, q \in prs' :
                    (q.id = r.id /\ r.status \in {"merged", "closed"})
                        => q.status \in {"merged", "closed"}]_vars

\* C2: after the seeding of a created or added pull request its status is the
\* first that applies of merged, closed, changes_requested, approved (the
\* approvals of the snapshot reach the required count), and open when none
\* applies; a status is written exactly when it is not open; the creation of
\* server/server.go writes the same status when its fetch succeeded
C2_InitialStatusByPriority ==
    (sub.kind \in {"track", "edit"} /\ sub.seeded \in {"written", "none"}) =>
        \A r \in prs : r.id = sub.prID =>
            LET rs == sub.rs
                expected == IF rs.merged THEN "merged"
                            ELSE IF rs.closed THEN "closed"
                            ELSE IF rs.changesRequested THEN "changes_requested"
                            ELSE IF rs.approvals >= r.req THEN "approved"
                            ELSE "open"
            IN  /\ r.status = expected
                /\ (sub.seeded = "written") <=> (expected # "open")
                /\ ~rs.err =>
                     ServerInitialStatus(rs, r.req) = IF expected = "open" THEN "" ELSE expected

\* an added pull request whose snapshot has enough approvals and a request for
\* changes has been seeded changes_requested by the edit
C2_Witness ==
    /\ sub.kind = "edit" /\ sub.seeded = "written"
    /\ \E r \in prs : /\ r.id = sub.prID
                      /\ sub.rs.approvals >= r.req
                      /\ sub.rs.changesRequested
                      /\ r.status = "changes_requested"

\* C3: handled one at a time, an approved review of a tracked pull request
\* read with the count c leaves the count c + 1, whatever the status read and
\* whoever the reviewer is
C3_ApprovedAddsOne ==
    \A h \in Handlers :
        (/\ task[h].ev.type = "pull_request_review"
         /\ task[h].ev.state = "approved"
         /\ task[h].pr # NoRow) =>
            \A r \in prs : r.id = task[h].pr.id =>
                /\ task[h].pc = "approvals" => r.cur = task[h].pr.cur
                /\ task[h].pc \in {"status", "render", "done"} => r.cur = task[h].pr.cur + 1

\* an approval of a pull request already approved, at the required count,
\* has been counted
C3_Witness ==
    \E h \in Handlers :
        /\ task[h].pc = "done"
        /\ task[h].ev.type = "pull_request_review" /\ task[h].ev.state = "approved"
        /\ task[h].pr # NoRow
        /\ task[h].pr.status = "approved"
        /\ task[h].pr.cur >= task[h].pr.req
        /\ \E r \in prs : r.id = task[h].pr.id /\ r.cur = task[h].pr.cur + 1

\* C4: after an approved review is handled the status is approved when
\* c + 1 >= required and is the status read otherwise; the status is written
\* exactly when c + 1 >= required and the status read is not approved
C4_ApprovedAtThreshold ==
    \A h \in Handlers :
        (/\ task[h].ev.type = "pull_request_review"
         /\ task[h].ev.state = "approved"
         /\ task[h].pr # NoRow
         /\ task[h].pc \in {"render", "done"}) =>
            \A r \in prs : r.id = task[h].pr.id =>
                LET reached == task[h].pr.cur + 1 >= task[h].pr.req
                IN  /\ r.status = IF reached THEN "approved" ELSE task[h].pr.status
                    /\ (\E k \in 1..Len(task[h].log) : task[h].log[k] = "status")
                         <=> (reached /\ task[h].pr.status # "approved")

\* the second of two required approvals has turned a pull request with
\* changes requested to approved
C4_Witness ==
    \E h \in Handlers :
        /\ task[h].pc = "done"
        /\ task[h].ev.type = "pull_request_review" /\ task[h].ev.state = "approved"
        /\ task[h].pr # NoRow
        /\ task[h].pr.status = "changes_requested"
        /\ task[h].pr.req = 2 /\ task[h].pr.cur = 1
        /\ \E r \in prs : r.id = task[h].pr.id /\ r.status = "approved"

\* C5: a changes_requested review of a tracked pull request leaves the count
\* 0 and the status changes_requested, whatever was stored
C5_ChangesRequestedResets ==
    \A h \in Handlers :
        (/\ task[h].ev.type = "pull_request_review"
         /\ task[h].ev.state = "changes_requested"
         /\ task[h].pr # NoRow) =>
            \A r \in prs : r.id = task[h].pr.id =>
                /\ task[h].pc \in {"status", "render", "done"} => r.cur = 0
                /\ task[h].pc \in {"render", "done"} => r.status = "changes_requested"

\* a merged pull request with approvals has been reset by a request for changes
C5_Witness ==
    \E h \in Handlers :
        /\ task[h].pc = "done"
        /\ task[h].ev.type = "pull_request_review"
        /\ task[h].ev.state = "changes_requested"
        /\ task[h].pr # NoRow
        /\ task[h].pr.status = "merged" /\ task[h].pr.cur > 0
        /\ \E r \in prs : r.id = task[h].pr.id /\ r.cur = 0 /\ r.status = "changes_requested"

\* C6: a closed event of a tracked pull request leaves the status merged when
\* its merged flag is set and closed otherwise, whatever the status read
C6_ClosedSetsStatus ==
    \A h \in Handlers :
        (/\ task[h].ev.type = "pull_request"
         /\ task[h].ev.action = "closed"
         /\ task[h].pr # NoRow
         /\ task[h].pc \in {"complete", "render", "done"}) =>
            \A r \in prs : r.id = task[h].pr.id =>
                r.status = IF task[h].ev.merged THEN "merged" ELSE "closed"

\* an approved pull request has been closed without a merge
C6_Witness ==
    \E h \in Handlers :
        /\ task[h].pc = "done"
        /\ task[h].ev.type = "pull_request" /\ task[h].ev.action = "closed"
        /\ ~task[h].ev.merged
        /\ task[h].pr # NoRow
        /\ task[h].pr.status = "approved"
        /\ \E r \in prs : r.id = task[h].pr.id /\ r.status = "closed"

\* C7: the count an approved review writes is the count its handler read
\* plus one, not the stored count plus one: when two handlers of approved
\* reviews of one pull request have both read the count c and both written,
\* the stored count is c + 1
C7_LostUpdate ==
    \A a, b \in Handlers :
        (/\ a # b
         /\ \A h \in {a, b} :
               /\ task[h].ev.type = "pull_request_review"
               /\ task[h].ev.state = "approved"
               /\ task[h].pr # NoRow
               /\ task[h].pc \in {"status", "render", "done"}
         /\ task[a].pr.id = task[b].pr.id
         /\ task[a].pr.cur = task[b].pr.cur) =>
            \A r \in prs : r.id = task[a].pr.id => r.cur = task[a].pr.cur + 1

\* the only two deliveries were approved reviews of one pull request, both
\* handlers have ended, and the count has risen by one
C7_Witness ==
    /\ budget = MaxEvents - 2
    /\ \A h \in Handlers :
          /\ task[h].pc = "done"
          /\ task[h].ev.type = "pull_request_review"
          /\ task[h].ev.state = "approved"
          /\ task[h].pr # NoRow
    /\ task["h1"].pr = task["h2"].pr
    /\ \E r \in prs : r.id = task["h1"].pr.id /\ r.cur = task["h1"].pr.cur + 1

\* C8: the count and the status are written by separate statements: while
\* the handler of the only delivery so far is between the two, the store
\* holds the new count with the status it read; and when an approved and a
\* changes_requested review of one pull request have both been handled to
\* the end, the count and the status are each the one written last
C8_SeparateWrites ==
    /\ \A h \in Handlers :
          (/\ budget = MaxEvents - 1
           /\ task[h].ev.type = "pull_request_review"
           /\ task[h].pc = "status") =>
              \A r \in prs : r.id = task[h].pr.id =>
                  /\ r.cur = IF task[h].ev.state = "approved" THEN task[h].pr.cur + 1 ELSE 0
                  /\ r.status = task[h].pr.status
    /\ \A a, c \in Handlers :
          (/\ budget = MaxEvents - 2
           /\ task[a].pc = "done" /\ task[c].pc = "done"
           /\ task[a].ev.type = "pull_request_review" /\ task[a].ev.state = "approved"
           /\ task[c].ev.type = "pull_request_review"
           /\ task[c].ev.state = "changes_requested"
           /\ task[a].pr # NoRow /\ task[c].pr # NoRow
           /\ task[a].pr.id = task[c].pr.id) =>
              \A r \in prs : r.id = task[a].pr.id =>
                  /\ r.cur \in {0, task[a].pr.cur + 1}
                  /\ r.status \in {"changes_requested"} \cup
                        (IF \E k \in 1..Len(task[a].log) : task[a].log[k] = "status"
                         THEN {"approved"} ELSE {})

\* an approved and a changes_requested review were handled together and the
\* pull request is left approved with no approval counted
C8_Witness ==
    /\ budget = MaxEvents - 2
    /\ \E a, c \in Handlers :
          /\ task[a].pc = "done" /\ task[c].pc = "done"
          /\ task[a].ev.type = "pull_request_review" /\ task[a].ev.state = "approved"
          /\ task[c].ev.type = "pull_request_review"
          /\ task[c].ev.state = "changes_requested"
          /\ task[a].pr # NoRow /\ task[c].pr # NoRow
          /\ task[a].pr.id = task[c].pr.id
          /\ \E r \in prs : r.id = task[a].pr.id /\ r.status = "approved" /\ r.cur = 0

\* C9: a review or pull-request event whose owner, repo and number match no
\* stored pull request ends at the lookup: no row is written, no message is
\* updated, and the webhook answers OK
C9_UnknownPullRequestIgnored ==
    [][\A h \in Handlers :
          (/\ task[h].pc = "find"
           /\ task'[h] # task[h]
           /\ ~\E r \in prs : r.key = task[h].ev.key) =>
              /\ store' = store
              /\ chat' = chat
              /\ task'[h].pc = "done"
              /\ task'[h].resp = 200
              /\ task'[h].log = <<>>]_vars

\* a closed event of a pull request no tracker holds has been answered,
\* while another pull request is tracked
C9_Witness ==
    \E h \in Handlers :
        /\ task[h].pc = "done" /\ task[h].resp = 200
        /\ task[h].ev.type = "pull_request" /\ task[h].ev.action = "closed"
        /\ task[h].pr = NoRow
        /\ prs # {}
        /\ ~\E r \in prs : r.key = task[h].ev.key

\* C10: a review event whose action is not submitted, or whose state is
\* neither approved nor changes_requested, is answered at once: the store
\* and the messages are unchanged by its receipt and by its end, even for a
\* tracked pull request
C10_OtherReviewsIgnored ==
    [][\A h \in Handlers :
          LET Other(ev) == /\ ev.type = "pull_request_review"
                           /\ \/ ev.action # "submitted"
                              \/ ev.state \notin {"approved", "changes_requested"}
          IN  /\ (task'[h] # task[h] /\ Other(task'[h].ev)) =>
                    /\ store' = store
                    /\ chat' = chat
                    /\ task'[h].pc = "done"
                    /\ task'[h].resp = 200
                    /\ task'[h].log = <<>>
              /\ (task'[h] # task[h] /\ Other(task[h].ev)) =>
                    /\ store' = store
                    /\ chat' = chat
                    /\ task'[h] = IdleTask]_vars

\* a commented review of a tracked pull request has been answered with
\* nothing written
C10_Witness ==
    \E h \in Handlers :
        /\ task[h].pc = "done" /\ task[h].resp = 200
        /\ task[h].ev.type = "pull_request_review"
        /\ task[h].ev.action = "submitted" /\ task[h].ev.state = "commented"
        /\ task[h].log = <<>>
        /\ \E r \in prs : r.key = task[h].ev.key

----------------------------------------------------------------------------
(* Properties of the title sync, the completion check and the re-render *)

C12_CompletionIffAllTerminal ==
    [][\A h \in Handlers :
          LET t == task[h].pr.tracker
              allTerminal == \A r \in prs : r.tracker = t => r.status \in {"merged", "closed"}
              said == task'[h].log
          IN  (task[h].pc = "complete" /\ task'[h] # task[h] /\ faults' = faults) =>
                  /\ prs' = prs
                  /\ allTerminal =>
                        /\ trackers' = [trackers EXCEPT ![t].status = "completed"]
                        /\ said = task[h].log \o <<"complete", "completed">>
                  /\ ~allTerminal =>
                        /\ trackers' = trackers
                        /\ said = task[h].log \o <<"complete">>]_vars

\* the first tracker has been completed by the close of its last open pull
\* request while the second tracker holds an open one
C12_Witness ==
    \E h \in Handlers :
        /\ task[h].pc = "done"
        /\ task[h].ev.type = "pull_request" /\ task[h].ev.action = "closed"
        /\ task[h].pr # NoRow /\ task[h].pr.tracker = 1
        /\ task[h].pr.status \notin {"merged", "closed"}
        /\ task[h].was = "active"
        /\ trackers[1].status = "completed"
        /\ trackers[2].status = "active"
        /\ \E r \in prs : r.tracker = 2 /\ r.status = "open"

\* C13: the completion check run again on the store it left changes nothing
\* and reports the same; run on a completed tracker whose pull requests are
\* all merged or closed it leaves every row as it was
C13_CompletionIdempotent ==
    [][\A h \in Handlers :
          LET t == task[h].pr.tracker
          IN  (task[h].pc = "complete" /\ task'[h] # task[h] /\ faults' = faults) =>
                  /\ CompleteTrackerIfDone(t)' = trackers'
                  /\ CompletedReport(t)' = CompletedReport(t)
                  /\ (/\ trackers[t].status = "completed"
                      /\ \A r \in prs : r.tracker = t => r.status \in {"merged", "closed"}) =>
                        (store' = store /\ CompletedReport(t))]_vars

\* the check has run on a tracker that was completed already and has
\* reported completed again
C13_Witness ==
    \E h \in Handlers :
        /\ task[h].pc = "done"
        /\ task[h].ev.type = "pull_request" /\ task[h].ev.action = "closed"
        /\ task[h].was = "completed"
        /\ \E k \in 1..Len(task[h].log) : task[h].log[k] = "completed"
        /\ trackers[task[h].pr.tracker].status = "completed"

\* C14: the handler of a closed event goes from a status write that
\* succeeded to the completion check and from the completion check, whatever
\* it reported and also when it failed, to the re-render; the handler of a
\* review goes from its writes to the re-render and never runs the
\* completion check or changes a tracker
C14_CloseOrder ==
    [][\A h \in Handlers :
          LET t == task[h]
              moved == task'[h] # t /\ t.pr # NoRow
          IN  /\ (moved /\ t.ev.type = "pull_request" /\ t.ev.action = "closed") =>
                    /\ t.pc = "status" =>
                          IF faults' = faults
                          THEN /\ task'[h].pc = "complete"
                               /\ task'[h].log = t.log \o <<"status">>
                          ELSE task'[h].pc = "done" /\ store' = store
                    /\ t.pc = "complete" => task'[h].pc = "render" /\ prs' = prs
                    /\ t.pc = "render" => task'[h].pc \in {"send", "done"} /\ store' = store
                    /\ t.pc = "send" =>
                          /\ task'[h].pc = "done" /\ store' = store
                          /\ \E k \in 1..Len(t.log) : t.log[k] = "status"
              /\ (moved /\ t.ev.type = "pull_request_review" /\ t.pc # "done") =>
                    /\ trackers' = trackers
                    /\ task'[h].pc # "complete"
                    /\ t.was = "" /\ task'[h].was = ""
                    /\ (t.pc = "approvals" /\ faults' = faults) =>
                          task'[h].pc \in {"status", "render"}
                    /\ (t.pc = "status" /\ faults' = faults) => task'[h].pc = "render"]_vars

\* a closed event whose completion check failed has still updated the message
C14_Witness ==
    \E h \in Handlers :
        /\ task[h].pc = "done"
        /\ task[h].ev.type = "pull_request" /\ task[h].ev.action = "closed"
        /\ task[h].pr # NoRow
        /\ task[h].log = <<"status", "update">>
        /\ chat[trackers[task[h].pr.tracker].ts].text = TrackerText(task[h].pr.tracker)

\* C15: once every webhook handler has ended, the message of each tracker
\* shows the rendering of the rows the store holds
C15_MessageReflectsStore ==
    (\A h \in Handlers : task[h].pc \in {"idle", "done"}) =>
        \A t \in 1..Len(trackers) :
            trackers[t].ts \in 1..Len(chat) => chat[trackers[t].ts].text = TrackerText(t)

\* C16: between the requests of the scenario the only pull request is open
\* with count 1 of 2 after the creation, approved with count 2 after the
\* approved review, changes_requested with count 0 after the request for
\* changes, and merged after the merge, with its tracker completed then and
\* active before
C16_Scenario ==
    (AllIdle /\ lastPrId = 1) =>
        \E r \in prs :
            /\ prs = {r}
            /\ r.req = 2
            /\ budget = 3 => r.status = "open" /\ r.cur = 1
            /\ budget = 2 => r.status = "approved" /\ r.cur = 2
            /\ budget = 1 => r.status = "changes_requested" /\ r.cur = 0
            /\ budget = 0 => r.status = "merged"
            /\ trackers[1].status = IF budget = 0 THEN "completed" ELSE "active"

\* the scenario has been run to its end and the message shows it
C16_Witness ==
    /\ AllIdle /\ lastPrId = 1 /\ budget = 0
    /\ trackers[1].status = "completed"
    /\ \E r \in prs : r.status = "merged" /\ r.cur = 0 /\ r.req = 2
    /\ chat[trackers[1].ts].text = TrackerText(1)

----------------------------------------------------------------------------
(* Properties of the store *)

\* C17: no two pull-request rows hold the same (owner, repo, number) triple
C17_OneRowPerTriple ==
    \A r1 \in prs, r2 \in prs : r1.key = r2.key => r1 = r2

\* C18: every pull-request row references a tracker row and every reviewer
\* row references a pull-request row
C18_RowsHaveParents ==
    /\ \A r \in prs : r.tracker \in 1..Len(trackers)
    /\ \A k \in 1..Len(reviewers) : \E r \in prs : r.id = reviewers[k].pr

----------------------------------------------------------------------------
(* Properties of the modals *)

\* a layout of n slots has the blocks pr_url_block_0 .. pr_url_block_<n-1>
SlotCount(blocks) == SlotsRead(blocks.urls, 0)

\* C19: a modal always has one URL slot or more, numbered from 0; the create
\* form opens with one; the modal built on an add has one slot more than the
\* payload, the last one empty, and the modal built on a remove has one slot
\* fewer, but never fewer than one
C19_SlotCount ==
    sub.kind = "modal" =>
        /\ SlotCount(sub.view.blocks) >= 1
        /\ SlotCount(sub.built.blocks) >= 1
        /\ DOMAIN sub.built.blocks.urls = 0..(SlotCount(sub.built.blocks) - 1)
        /\ (sub.payload = NoPayload /\ sub.view.callback = "track_pr") =>
               SlotCount(sub.view.blocks) = 1
        /\ sub.payload.action = "add_pr_url" =>
               /\ SlotCount(sub.built.blocks) = SlotsRead(sub.payload.urls, 0) + 1
               /\ sub.built.blocks.urls[SlotCount(sub.built.blocks) - 1] = EmptyText
        /\ sub.payload.action = "remove_pr_url" =>
               SlotCount(sub.built.blocks) =
                   IF SlotsRead(sub.payload.urls, 0) - 1 >= 1
                   THEN SlotsRead(sub.payload.urls, 0) - 1 ELSE 1

\* a remove has been pressed on a modal of one slot, which has a text
C19_Witness ==
    /\ sub.kind = "modal"
    /\ sub.payload.action = "remove_pr_url"
    /\ SlotsRead(sub.payload.urls, 0) = 1
    /\ sub.payload.urls[0] # EmptyText
    /\ SlotCount(sub.view.blocks) = 1

\* C20: the modal built on an add or a remove holds the title, the reviewer
\* selection and the text of every remaining URL slot of the payload
C20_ValuesCarried ==
    (sub.kind = "modal" /\ sub.payload # NoPayload) =>
        /\ sub.built.blocks.title = sub.payload.title
        /\ sub.built.blocks.users = sub.payload.users
        /\ \A i \in DOMAIN sub.built.blocks.urls \cap DOMAIN sub.payload.urls :
               sub.built.blocks.urls[i] = sub.payload.urls[i]

\* C21: an add followed by a remove, nothing being typed in between, builds
\* a modal with the slots, the title and the reviewer selection of the payload
\* of the add
C21_AddThenRemove ==
    (sub.kind = "modal" /\ sub.payload # NoPayload) =>
        LET added == handleAddRemovePR([sub.payload EXCEPT !.action = "add_pr_url"])
            shown == [sub.payload EXCEPT !.action = "remove_pr_url",
                                         !.title = added.blocks.title,
                                         !.urls = added.blocks.urls,
                                         !.users = added.blocks.users]
            back == handleAddRemovePR(shown)
        IN  /\ back.blocks.urls = sub.payload.urls
            /\ back.blocks.title = sub.payload.title
            /\ back.blocks.users = sub.payload.users

----------------------------------------------------------------------------
(* Properties of the submissions *)

\* C22: a creation or an edit whose form has an unparseable text in a slot
\* that is read, every slot below it being present, is answered with a
\* validation error keyed to the lowest such slot, and the request changes no
\* row, calls no API and posts or updates no message
C22_BadSlotRejected ==
    [][\A i \in 0..MaxPRs :
          (/\ sub = NoSub
           /\ sub'.kind \in {"track", "edit"}
           /\ 0..i \subseteq DOMAIN sub'.form
           /\ parsePRURL(sub'.form[i]).err
           /\ \A j \in 0..(i - 1) : ~parsePRURL(sub'.form[j]).err)
          => /\ sub'.block = i
             /\ sub'.pc = "done"
             /\ sub'.log = <<>>
             /\ UNCHANGED <<store, chat>>]_vars

\* a form whose first slot is well formed and whose second is empty has been
\* rejected at its second slot
C22_Witness ==
    /\ sub.kind \in {"track", "edit"}
    /\ DOMAIN sub.form = {0, 1}
    /\ ~parsePRURL(sub.form[0]).err
    /\ sub.form[1] = EmptyText
    /\ sub.block = 1
    /\ sub.pc = "done"

\* C23: with k the lowest index at which the form has no slot, a submission
\* that is accepted has parsed the slots 0..k-1 and no other, a rejection names
\* one of them, and a form without slot 0 is rejected at pr_url_block_0
\* with nothing written
C23_SlotsReadInOrder ==
    [][(sub = NoSub /\ sub'.kind \in {"track", "edit"}) =>
          LET k == Min({i \in 0..(MaxPRs + 1) : i \notin DOMAIN sub'.form})
          IN  /\ sub'.block < 0 =>
                    /\ k >= 1
                    /\ Len(sub'.parsed) = k
                    /\ \A i \in 0..(k - 1) : sub'.parsed[i + 1] = parsePRURL(sub'.form[i])
              /\ sub'.block >= 0 => sub'.block < k \/ k = 0
              /\ k = 0 =>
                    /\ sub'.block = 0
                    /\ sub'.pc = "done"
                    /\ UNCHANGED <<store, chat>>]_vars

\* a form with the slots 0 and 2, the latter unparseable, has been accepted
\* with one URL
C23_Witness ==
    /\ sub.kind \in {"track", "edit"}
    /\ DOMAIN sub.form = {0, 2}
    /\ parsePRURL(sub.form[2]).err
    /\ sub.pc = "start"
    /\ Len(sub.parsed) = 1

\* C24: a pull request whose snapshot fetch failed during a creation has
\* been stored, and neither a status nor an approval count has been written
\* for it: once its seeding steps are over its row is open with count 0
C24_FailedSnapshotSeedsNothing ==
    (sub.kind = "track" /\ sub.pc = "link" /\ sub.rs.err) =>
        /\ sub.seeded = "none"
        /\ \E r \in prs : /\ r.id = sub.prID
                          /\ r.status = "open"
                          /\ r.cur = 0

\* C25: when the post of the first message of a creation fails, the rows
\* written so far stay as they are, the tracker keeps no message ts, and the
\* request ends without a refresh
C25_FailedPostKeepsRows ==
    [][(sub.kind = "track" /\ sub.pc = "post" /\ sub' # sub /\ chat' = chat) =>
          /\ UNCHANGED store
          /\ trackers'[sub.tracker].ts = 0
          /\ sub'.pc = "done"
          /\ sub'.log = sub.log]_vars

\* a creation has ended at the failed post, its rows in the store
C25_Witness ==
    /\ sub.kind = "track" /\ sub.pc = "done" /\ sub.resp = 200
    /\ sub.log = <<"tracker", "pr">>
    /\ chat = <<>>
    /\ trackers[sub.tracker].ts = 0
    /\ \E r \in prs : r.tracker = sub.tracker
    /\ \E k \in 1..Len(reviewers) : reviewers[k].pr = sub.prID

----------------------------------------------------------------------------
(* Properties of the failures of the webhook handlers *)

\* C26: the failure of a store write of a webhook handler, be it of the
\* approval count, the status, the title or the tracker completion, ends the
\* handler: it writes no more and does not re-render
C26_FailedWriteEndsHandler ==
    [][\A h \in Handlers :
          (task[h].pc \in {"approvals", "status", "title", "complete"} /\ faults' < faults)
          => task'[h].pc = "done"]_vars

\* C26, amended: the failure of the write of the approval count or of the
\* status ends the handler with nothing written; the failure of the title
\* sync or of the completion check writes nothing and the handler goes on to
\* its next step
C26_FailedWriteEndsOrIsPassedOver ==
    [][\A h \in Handlers :
          /\ (task[h].pc \in {"approvals", "status"} /\ faults' < faults) =>
                /\ task'[h].pc = "done"
                /\ task'[h].log = task[h].log
                /\ UNCHANGED <<store, chat>>
          /\ (task[h].pc = "title" /\ faults' < faults) =>
                /\ task'[h].pc = IF task[h].ev.action = "closed" THEN "status" ELSE "render"
                /\ UNCHANGED <<store, chat>>
          /\ (task[h].pc = "complete" /\ faults' < faults) =>
                /\ task'[h].pc = "render"
                /\ UNCHANGED <<store, chat>>
          /\ task[h].pc = "done" => task'[h].pc = "idle" /\ UNCHANGED <<store, chat>>]_vars

\* the status write of a closed event has failed and the handler has ended
C26_Witness ==
    \E h \in Handlers :
        /\ task[h].pc = "done"
        /\ task[h].ev.type = "pull_request" /\ task[h].ev.action = "closed"
        /\ task[h].pr # NoRow
        /\ task[h].log = <<>>
        /\ ~TitleChanged(task[h])

----------------------------------------------------------------------------
(* Properties of the snapshot and of the rendering *)

\* C27: the snapshot counts the users whose last APPROVED or
\* CHANGES_REQUESTED review is APPROVED, flags requested changes exactly when
\* the last such review of some user is CHANGES_REQUESTED, and is the
\* snapshot of the same reviews without those in another state
C27_SnapshotReduction ==
    (sub.kind = "fetch" /\ sub.pc = "returned" /\ ~sub.rs.err) =>
        LET reviews == sub.answer.reviews
            Actionable(i) == reviews[i].state \in {"APPROVED", "CHANGES_REQUESTED"}
            LastIs(u, state) ==
                \E i \in 1..Len(reviews) :
                    /\ reviews[i].user = u /\ reviews[i].state = state
                    /\ \A j \in (i + 1)..Len(reviews) :
                          reviews[j].user = u => ~Actionable(j)
        IN  /\ sub.rs.approvals = Cardinality({u \in Logins : LastIs(u, "APPROVED")})
            /\ sub.rs.changesRequested = \E u \in Logins : LastIs(u, "CHANGES_REQUESTED")
            /\ sub.rs = fetchPRReviewState(
                   [sub.answer EXCEPT !.reviews =
                       SelectSeq(reviews, LAMBDA r : r.state \in {"APPROVED", "CHANGES_REQUESTED"})])

\* a user asked for changes and then approved: one approval, no flag
C27_Witness ==
    /\ sub.kind = "fetch" /\ sub.pc = "returned" /\ ~sub.rs.err
    /\ Len(sub.answer.reviews) = 2
    /\ sub.answer.reviews[1].user = sub.answer.reviews[2].user
    /\ sub.answer.reviews[1].state = "CHANGES_REQUESTED"
    /\ sub.answer.reviews[2].state = "APPROVED"
    /\ sub.rs.approvals = 1
    /\ ~sub.rs.changesRequested

\* C28: a rendering changes no row, and the rendering of rows whose message
\* already shows a rendering of them leaves the text of the message as it is
C28_RenderIdempotent ==
    [][/\ UNCHANGED store
       /\ \A t \in 1..Len(trackers) :
             chat[trackers[t].ts].text \in RenderedTexts(t) =>
                 chat'[trackers[t].ts].text = chat[trackers[t].ts].text]_vars

\* C29: once an edit has replaced the reviewers, every store call having
\* succeeded, the reviewer rows of each pull request of the tracker are the
\* submitted users, once each and no other
C29_ReviewersReplaced ==
    (sub.kind = "edit" /\ sub.pc = "refresh") =>
        \A r \in prs : r.tracker = sub.tracker => GetReviewersByPR(r.id) = sub.users

\* an edit that kept one pull request and added another has replaced two
\* reviewers by one
C29_Witness ==
    /\ sub.kind = "edit" /\ sub.pc = "refresh"
    /\ sub.users = <<"U1">>
    /\ \E r1, r2 \in prs : /\ r1.tracker = sub.tracker /\ r2.tracker = sub.tracker
                           /\ r1.id = 1 /\ r2.id = 2
                           /\ GetReviewersByPR(r1.id) = <<"U1">>
                           /\ GetReviewersByPR(r2.id) = <<"U1">>
    /\ Len(reviewers) = 2

\* C30: no step removes a tracker row, and a tracker that is completed stays
\* completed
C30_TrackerLifecycle ==
    [][/\ Len(trackers') >= Len(trackers)
       /\ \A t \in 1..Len(trackers) :
             /\ trackers'[t].channel = trackers[t].channel
             /\ trackers[t].status = "completed" => trackers'[t].status = "completed"]_vars

\* an edit has renamed a completed tracker and given it an open pull request
C30_Witness ==
    /\ sub.kind = "edit" /\ sub.pc = "refresh"
    /\ trackers[sub.tracker].status = "completed"
    /\ trackers[sub.tracker].title = sub.title
    /\ "pr" \in {sub.log[k] : k \in 1..Len(sub.log)}
    /\ \E r \in prs : r.tracker = sub.tracker /\ r.status = "open"

----------------------------------------------------------------------------
(* Invariants of the rows *)

C32_ApprovedHasEnough ==
    AllIdle => \A r \in prs : r.status = "approved" => r.cur >= r.req

\* an edit has added a pull request that two users had approved, of a
\* repository that requires two approvals
C32_Witness ==
    /\ AllIdle
    /\ \E r \in prs : r.id = 2 /\ r.status = "approved" /\ r.req = 2 /\ r.cur = 2

\* C33: between requests every pull request of a completed tracker is
\* merged or closed
C33_CompletedHasNoOpenPR ==
    AllIdle =>
        \A t \in 1..Len(trackers) :
            trackers[t].status = "completed" =>
                \A r \in prs : r.tracker = t => r.status \in {"merged", "closed"}

\* C34: between requests a tracker whose pull requests are all merged or
\* closed is completed
C34_AllTerminalIsCompleted ==
    AllIdle =>
        \A t \in 1..Len(trackers) :
            (/\ \E r \in prs : r.tracker = t
             /\ \A r \in prs : r.tracker = t => r.status \in {"merged", "closed"})
            => trackers[t].status = "completed"

\* C35: every stored pull request requires at least one approval, and no
\* step changes the required count of a stored pull request
C35_RequiredFixedAndPositive ==
    [][/\ \A r \in prs' : r.req >= 1
       /\ \A r \in prs : \A q \in prs' : q.id = r.id => q.req = r.req]_vars

C35_Witness ==
    /\ AllIdle
    /\ \E r \in prs : r.req = 2 /\ r.cur = 2 /\ r.status = "merged"

\* C36: a step of a webhook handler leaves alone what its event is not
\* about: a pull_request event the approval counts, a review event the
\* titles and the status of every tracker, and both the rows of the other
\* pull requests, the reviewers, and the channel, message and title of
\* every tracker
C36_WebhookFrame ==
    [][\A h \in Handlers :
          (task[h].pc # "idle" /\ task'[h] # task[h]) =>
              LET ev == task[h].ev
              IN  /\ {r.id : r \in prs'} = {r.id : r \in prs}
                  /\ \A r \in prs : r.key # ev.key => r \in prs'
                  /\ \A r \in prs : \A q \in prs' :
                        q.id = r.id =>
                            /\ q.tracker = r.tracker /\ q.key = r.key
                            /\ q.url = r.url /\ q.req = r.req
                            /\ ev.type = "pull_request" => q.cur = r.cur
                            /\ ev.type = "pull_request_review" => q.title = r.title
                  /\ reviewers' = reviewers
                  /\ lastPrId' = lastPrId
                  /\ Len(trackers') = Len(trackers)
                  /\ \A t \in 1..Len(trackers) :
                        /\ trackers'[t].channel = trackers[t].channel
                        /\ trackers'[t].ts = trackers[t].ts
                        /\ trackers'[t].title = trackers[t].title
                        /\ ev.type = "pull_request_review" =>
                               trackers'[t].status = trackers[t].status]_vars

C36_Witness ==
    /\ task["h1"].pc = "done"
    /\ task["h1"].ev.type = "pull_request"
    /\ task["h1"].ev.merged
    /\ task["h1"].ev.title = "B"
    /\ trackers[1].status = "completed"
    /\ \E r \in prs : r.key = task["h1"].ev.key /\ r.status = "merged"
                      /\ r.cur = 1 /\ r.title = "B"
    /\ \E r \in prs : r.tracker = 2 /\ r.status = "open"

----------------------------------------------------------------------------
(* A creation and the webhooks that arrive while it runs *)

\* no tracker yet, and webhooks to be delivered at any moment
InitRace ==
    /\ trackers = <<>>
    /\ prs = {}
    /\ lastPrId = 0
    /\ reviewers = <<>>
    /\ chat = <<>>
    /\ task = [h \in Handlers |-> IdleTask]
    /\ sub = NoSub
    /\ budget = MaxEvents
    /\ faults = 0

\* the steps of a creation of one pull request, whose snapshot carries at
\* most one review, interleaved with the steps of the webhook handler
NextRace ==
    \/ TrackSubmit(ScenarioForm)
    \/ SubCreateTracker
    \/ SubRequiredFrom({ScenarioProtection})
    \/ SubFetchFrom({ScenarioProtection},
                    {b \in PullAnswers : ~b.getErr /\ ~b.listErr /\ Len(b.reviews) <= 1})
    \/ SubInsert
    \/ SubSeedApprovals
    \/ SubSeedStatus
    \/ SubLinkReviewers
    \/ SubPost
    \/ SubRefresh
    \/ SubReturn
    \/ ReceiveConcurrent("h1")
    \/ HandlerStep("h1")

SpecRace == InitRace /\ [][NextRace]_vars

\* C37: no handler sends a message update addressed to an empty message ts
C37_NoUpdateWithoutTS ==
    \A h \in Handlers : task[h].pc = "send" => task[h].out.ts # 0

\* C38: the seeding of a creation leaves alone a status or an approval count
\* that a webhook has written to the row since it was inserted
C38_SeedKeepsWebhookResult ==
    [][(sub.kind = "track" /\ sub.pc \in {"approvals", "status"} /\ sub' # sub) =>
          \A r \in prs : \A q \in prs' :
              (r.id = sub.prID /\ q.id = r.id) =>
                  /\ r.status # "open" => q.status = r.status
                  /\ (sub.pc = "approvals" /\ r.cur # 0) => q.cur = r.cur]_vars

----------------------------------------------------------------------------
(* The rows after an edit *)

\* C39: an edit that passed validation ends with the URLs of the tracker's
\* pull requests being the submitted ones, and none of its steps changes a
\* row whose URL was submitted and that the edit did not insert
C39_EditSetsURLsKeepsRows ==
    [][sub.kind = "edit" /\ sub.tracker # 0 =>
          LET submitted == {ParsedSlots(sub.form)[k].url :
                               k \in 1..Len(ParsedSlots(sub.form))}
          IN  /\ \A r \in prs :
                    (r.tracker = sub.tracker /\ r.url \in submitted /\ r.id # sub.prID)
                        => r \in prs'
              /\ (sub.pc = "done" /\ sub.resp = 200) =>
                     {r.url : r \in {x \in prs : x.tracker = sub.tracker}} = submitted]_vars

C39_Witness ==
    /\ sub.kind = "edit" /\ sub.pc = "done" /\ sub.resp = 200
    /\ "pr" \in {sub.log[k] : k \in 1..Len(sub.log)}
    /\ Cardinality({r \in prs : r.tracker = sub.tracker}) = 2
    /\ \E r \in prs : r.tracker = sub.tracker /\ r.id = 1 /\ r.cur = 1
    /\ \E r \in prs : r.tracker = sub.tracker /\ r.id = 2

====
